---- MODULE Spec2Model ----
(***************************************************************************)
(* A model of the device session and live-event-stream engine of the       *)
(* attendance-terminal service:                                            *)
(*   - MultiDeviceLiveCaptureService (the supervisor): start, the          *)
(*     per-device initialization tasks, the monitor thread, restart_device *)
(*     and shutdown, over ZktecoWrapper sessions;                          *)
(*   - ZktecoWrapper.live_capture (the read loop) and parse_user_data;     *)
(*   - MultiDeviceService (the fan-out dispatcher).                        *)
(* Each part has its own specification over its own variables; the other   *)
(* parts' variables stay at their initial values under it.                 *)
(***************************************************************************)
EXTENDS Integers, Sequences, FiniteSets, TLC

(***************************************************************************)
(* Bounds of the model.                                                    *)
(***************************************************************************)
\* Device ids 1..NumDevices may be configured for the supervisor.
NumDevices == 2
\* ZktecoWrapper objects the supervisor creates in one run.
MaxSessions == 3
\* Signals delivered to the process in one run.
MaxSignals == 1

Devices == 1..NumDevices
Sessions == 1..MaxSessions

VARIABLES
    \* ---- supervisor (MultiDeviceLiveCaptureService) ----
    devices,          \* self.devices: the configured device ids
    device_wrappers,  \* self.device_wrappers: the dict's entry array, <<id, session>> or <<0, 0>> (deleted)
    sess,             \* the ZktecoWrapper objects created so far
    nsess,            \* how many wrappers were created
    status,           \* self.status
    shutdown_event,   \* self.shutdown_event
    task,             \* start()'s executor tasks, one per device
    mainpc,           \* position of the main thread (main / start)
    mon,              \* the monitor thread: position and locals
    sd,               \* the running shutdown() call: position and dict iterator
    sigs,             \* signals delivered so far
    \* ---- one ZktecoWrapper: live_capture thread and stop() ----
    lc,               \* the wrapper and its live-capture thread: position, flags, packet in hand
    posts,            \* the POST attempts of send_attendance_request, in order
    stopper,          \* position of a caller inside wrapper.stop()
    npk,              \* packets received so far
    \* ---- parse_user_data on its own ----
    p_data,           \* the payload given to parse_user_data
    p_out,            \* what it returned
    p_done,           \* whether it has been called
    \* ---- MultiDeviceService (fan-out) ----
    md_devices,       \* self.devices: ids of the registered devices
    md_req,           \* the dispatch call: kind, device_ids, operation
    md_fut,           \* the futures submitted to the executor
    md_results,       \* the results dict being built
    hc,               \* an is_healthy() call: the wrapper's fields, the probe, the result
    zs,               \* a ZkService operation: position, device state, driver calls
    cn,               \* a ZktecoWrapper.connect() call: position, locals, what it did
    lk,               \* one ZktecoWrapper under successive connect/start/stop calls
    sc,               \* one ZkService used by several callers at once
    fr,               \* one session: clock, last_ping_time, its worker and the monitor
    md_pc             \* position of the dispatch call

supVars == <<devices, device_wrappers, sess, nsess, status, shutdown_event,
             task, mainpc, mon, sd, sigs>>

liveVars == <<lc, posts, stopper, npk>>
parseVars == <<p_data, p_out, p_done>>
dispVars == <<md_devices, md_req, md_fut, md_results, md_pc>>
connVars == <<cn>>
healthVars == <<hc>>
zkVars == <<zs>>
linkVars == <<lk>>
scopeVars == <<sc>>
freshVars == <<fr>>

vars == <<supVars, liveVars, parseVars, dispVars, connVars, healthVars, zkVars, linkVars, scopeVars, freshVars>>

(***************************************************************************)
(* The registry: a Python dict, kept as its insertion-ordered entry array. *)
(***************************************************************************)
DictLive(reg) == {i \in DOMAIN reg : reg[i][1] # 0}
DictLen(reg) == Cardinality(DictLive(reg))
DictHas(reg, d) == \E i \in DOMAIN reg : reg[i][1] = d
DictGet(reg, d) == IF DictHas(reg, d)
                   THEN reg[CHOOSE i \in DOMAIN reg : reg[i][1] = d][2]
                   ELSE 0
DictSet(reg, d, s) == IF DictHas(reg, d)
                      THEN [i \in DOMAIN reg |-> IF reg[i][1] = d THEN <<d, s>> ELSE reg[i]]
                      ELSE Append(reg, <<d, s>>)
DictDel(reg, d) == [i \in DOMAIN reg |-> IF reg[i][1] = d THEN <<0, 0>> ELSE reg[i]]
\* list(dict.items()): the live entries in insertion order
RECURSIVE DictItems(_)
DictItems(reg) == IF reg = << >> THEN << >>
                  ELSE IF Head(reg)[1] # 0 THEN <<Head(reg)>> \o DictItems(Tail(reg))
                  ELSE DictItems(Tail(reg))

NoSession == [dev |-> 0, zk |-> FALSE, conn |-> FALSE, thr |-> "none", stop |-> FALSE]

(***************************************************************************)
(* ZktecoWrapper.__init__: the driver object is built and connect(True) is *)
(* tried.  "connected": connect succeeded and the live-capture thread was  *)
(* started; "unreachable": every connect attempt failed (self.zk is the    *)
(* driver object, not connected, no thread); "noobj": building the driver  *)
(* object raised and self.zk stayed None.                                  *)
(***************************************************************************)
InitOutcomes == {"connected", "unreachable", "noobj"}
NewWrapper(d, o) ==
    [dev |-> d, zk |-> (o # "noobj"), conn |-> (o = "connected"),
     thr |-> IF o = "connected" THEN "running" ELSE "none", stop |-> FALSE]

\* line 281: self.ping_interval = 15 (seconds)
ping_interval == 15

\* seconds since last_ping_time, around the limit ping_interval * 3
AgeSamples == {0, ping_interval * 3 - 1, ping_interval * 3, ping_interval * 3 + 1, 100}
\* zk.helper.test_ping(): True, False or an exception
PingOutcomes == {"ok", "fail", "raise"}
\* live_capture_thread: None, a thread that is alive, a thread that has ended
ThreadStates == {"none", "alive", "dead"}

\* the health check without the test of the live-capture thread
HealthBody_NoThread(zk, is_connect, thread, age, ping) ==
    IF ~zk \/ ~is_connect THEN "false"
    ELSE IF age > ping_interval * 3 THEN "false"
    ELSE IF ping = "raise" THEN "raised"
    ELSE IF ping = "ok" THEN "true" ELSE "false"

\* lines 311-322, the body of the try: "true", "false", or "raised" when the
\* probe raises
HealthBody(zk, is_connect, thread, age, ping) ==
    IF ~zk \/ ~is_connect THEN "false"
    ELSE IF thread # "alive" THEN "false"
    ELSE IF age > ping_interval * 3 THEN "false"
    ELSE IF ping = "raise" THEN "raised"
    ELSE IF ping = "ok" THEN "true" ELSE "false"

\* lines 308-324: is_healthy(), with "except Exception: return False"
HealthCheck(zk, is_connect, thread, age, ping) ==
    IF HealthBody(zk, is_connect, thread, age, ping) = "raised" THEN "false"
    ELSE HealthBody(zk, is_connect, thread, age, ping)

\* wrapper.is_healthy(): the values it can return for session s, whatever the age
\* of last_ping_time and the answer to the probe
is_healthy(s) ==
    {HealthCheck(sess[s].zk, sess[s].conn,
                 IF sess[s].thr = "running" THEN "alive"
                 ELSE IF sess[s].thr = "none" THEN "none" ELSE "dead",
                 a, p) = "true" : a \in AgeSamples, p \in PingOutcomes}

\* wrapper.stop(), first half: set stop_event (and end_live_capture), then block in join
StopSignal(ss, s) == [ss EXCEPT ![s].stop = TRUE]
\* wrapper.stop(), second half: join(timeout=5) has returned, disconnect is tried;
\* ok = FALSE when zk.disconnect() raises (caught and logged)
StopDisconnect(ss, s, ok) ==
    IF ss[s].zk /\ ss[s].conn /\ ok THEN [ss EXCEPT ![s].conn = FALSE] ELSE ss

(***************************************************************************)
(* Bytes, integers and strings.  A bytes object is a sequence of 0..255, a *)
(* str a sequence of code points, None the value NoneVal.                  *)
(***************************************************************************)
NoneVal == <<-1>>

\* struct.unpack '<H' / '<I': unsigned little-endian value of a byte string
RECURSIVE LittleEndian(_)
LittleEndian(bs) == IF bs = << >> THEN 0 ELSE Head(bs) + 256 * LittleEndian(Tail(bs))

\* An unpacked unsigned integer of up to 32 bits is kept as two 16-bit halves,
\* value = hi * 65536 + lo, so that every value of a '<I' field is represented.
UnpackLE(bs) ==
    [lo |-> LittleEndian(SubSeq(bs, 1, 2)),
     hi |-> IF Len(bs) > 2 THEN LittleEndian(SubSeq(bs, 3, Len(bs))) ELSE 0]

\* quotient and remainder of such an integer divided by ten
DivTen(n) ==
    LET t == (n.hi % 10) * 65536 + n.lo IN
    [q |-> [lo |-> t \div 10, hi |-> n.hi \div 10], r |-> t % 10]

\* str(int), for a non-negative int: its decimal digits
RECURSIVE Str(_)
Str(n) == IF n.hi = 0 /\ n.lo < 10 THEN <<48 + n.lo>>
          ELSE Str(DivTen(n).q) \o <<48 + DivTen(n).r>>

\* bytes.split(b'\x00')[0]: the bytes before the first null byte
RECURSIVE SplitNull(_)
SplitNull(bs) == IF bs = << >> \/ Head(bs) = 0 THEN << >>
                 ELSE <<Head(bs)>> \o SplitNull(Tail(bs))

IsCont(b) == b \in 128..191
\* bytes.decode(errors='ignore'): UTF-8, every byte that is part of no valid
\* sequence is dropped
RECURSIVE Utf8Ignore(_)
Utf8Ignore(bs) ==
    IF bs = << >> THEN << >>
    ELSE LET b == Head(bs)
             r == Tail(bs) IN
         IF b < 128 THEN <<b>> \o Utf8Ignore(r)
         ELSE IF b \in 194..223 /\ Len(r) >= 1 /\ IsCont(r[1])
         THEN <<(b - 192) * 64 + (r[1] - 128)>> \o Utf8Ignore(Tail(r))
         ELSE IF /\ b \in 224..239 /\ Len(r) >= 2 /\ IsCont(r[1]) /\ IsCont(r[2])
                 /\ (b = 224 => r[1] >= 160) /\ (b = 237 => r[1] <= 159)
         THEN <<(b - 224) * 4096 + (r[1] - 128) * 64 + (r[2] - 128)>>
              \o Utf8Ignore(Tail(Tail(r)))
         ELSE IF /\ b \in 240..244 /\ Len(r) >= 3
                 /\ IsCont(r[1]) /\ IsCont(r[2]) /\ IsCont(r[3])
                 /\ (b = 240 => r[1] >= 144) /\ (b = 244 => r[1] <= 143)
         THEN <<(b - 240) * 262144 + (r[1] - 128) * 4096 + (r[2] - 128) * 64 + (r[3] - 128)>>
              \o Utf8Ignore(Tail(Tail(Tail(r))))
         ELSE Utf8Ignore(r)

(***************************************************************************)
(* ZktecoWrapper.parse_user_data                                           *)
(***************************************************************************)
\* the 12-byte branch unpacked with '<H' instead of '<I'
UnpackUserId_Short12(data) ==
    LET n == Len(data) IN
    IF n = 10 \/ n = 12 \/ n = 14
    THEN [t |-> "int", v |-> UnpackLE(SubSeq(data, 1, 2)), b |-> << >>]
    ELSE IF n = 32 \/ n = 36 \/ n = 37 \/ n >= 52
         THEN [t |-> "bytes", v |-> UnpackLE(<<0, 0>>), b |-> SubSeq(data, 1, 24)]
    ELSE [t |-> "none", v |-> UnpackLE(<<0, 0>>), b |-> << >>]

\* the if/elif chain: user_id as unpacked for a payload of that length, an int,
\* a 24-byte bytes object, or None when no branch matches
UnpackUserId(data) ==
    LET n == Len(data) IN
    IF n = 10 THEN [t |-> "int", v |-> UnpackLE(SubSeq(data, 1, 2)), b |-> << >>]
    ELSE IF n = 12 THEN [t |-> "int", v |-> UnpackLE(SubSeq(data, 1, 4)), b |-> << >>]
    ELSE IF n = 14 THEN [t |-> "int", v |-> UnpackLE(SubSeq(data, 1, 2)), b |-> << >>]
    ELSE IF n = 32 \/ n = 36 \/ n = 37 \/ n >= 52
         THEN [t |-> "bytes", v |-> UnpackLE(<<0, 0>>), b |-> SubSeq(data, 1, 24)]
    ELSE [t |-> "none", v |-> UnpackLE(<<0, 0>>), b |-> << >>]

\* parse_user_data(data): str(user_id) for an int, the text before the first null
\* for bytes; None.split raises AttributeError, which is caught: None is returned
parse_user_data(data) ==
    LET u == UnpackUserId(data) IN
    IF u.t = "int" THEN Str(u.v)
    ELSE IF u.t = "bytes" THEN Utf8Ignore(SplitNull(u.b))
    ELSE NoneVal

\* "if user_id:" in the record loop
Truthy(uid) == uid # NoneVal /\ uid # << >>

(***************************************************************************)
(* parse_user_data applied to sample payloads                              *)
(***************************************************************************)
\* payload lengths 52..52+MaxExtra stand for "at least 52"
MaxExtra == 2
\* the first NumIdBytes bytes of a sample payload vary, the rest is one filler byte
NumIdBytes == 3
\* NUL, 17, the digits '1' '2' '4', the valid pair C3 A9, the never-valid byte FF
ByteSamples == {0, 17, 49, 50, 52, 195, 169, 255}
FillSamples == {0, 55}
ParseLens == {9, 10, 11, 12, 14, 20, 32, 36, 37, 40, 51} \cup (52..(52 + MaxExtra))

PayloadOf(len, pre, fill) == [i \in 1..len |-> IF i <= Len(pre) THEN pre[i] ELSE fill]

ParseInit ==
    /\ \E len \in ParseLens, pre \in [1..NumIdBytes -> ByteSamples], fill \in FillSamples :
         p_data = PayloadOf(len, pre, fill)
    /\ p_out = << >>
    /\ p_done = FALSE

ParseIdle == p_data = << >> /\ p_out = << >> /\ p_done = FALSE

ParseCall ==
    /\ ~p_done
    /\ p_out' = parse_user_data(p_data)
    /\ p_done' = TRUE
    /\ UNCHANGED <<p_data, supVars, liveVars, dispVars, connVars, healthVars, zkVars, linkVars, scopeVars, freshVars>>

ParseNext == ParseCall

(***************************************************************************)
(* ZktecoWrapper.live_capture: packets, framing, the read loop             *)
(***************************************************************************)
\* packets received / POST attempts recorded in one run
MaxPackets == 2
MaxPosts == 2

LE16Bytes(n) == <<n % 256, (n \div 256) % 256>>
LE32Bytes(n) == <<n % 256, (n \div 256) % 256, (n \div 65536) % 256, (n \div 16777216) % 256>>

\* What the device sends: a command code (500 is the live event, 501 another
\* one) and a payload; "short" packets are cut off inside the header.
LiveLens == {0, 4, 10, 12, 14, 20, 32, 36, 37, 52}
LivePrefixes == {<<49, 55>>, <<0>>}
Packets ==
    [cmd : {500, 501},
     payload : {PayloadOf(n, pre, 0) : n \in LiveLens, pre \in LivePrefixes},
     short : {FALSE}]
    \cup {[cmd |-> 500, payload |-> << >>, short |-> TRUE]}
NoPacket == [cmd |-> 0, payload |-> << >>, short |-> FALSE]

\* the bytes recv returns for a packet, on a stream (tcp) or datagram transport
RawPacket(tcp, pkt) ==
    LET body == LE16Bytes(pkt.cmd) \o <<0, 0, 0, 0, 0, 0>> \o pkt.payload
        full == IF tcp THEN <<80, 80, 130, 125>> \o LE32Bytes(Len(body)) \o body ELSE body
    IN IF pkt.short THEN SubSeq(full, 1, IF tcp THEN 12 ELSE 4) ELSE full

\* data_recv[a:b] of Python, 0-based and clipped
Slice(bs, a, b) == SubSeq(bs, a + 1, IF b < Len(bs) THEN b ELSE Len(bs))

\* lines 359-366: header and payload of the received bytes; err when unpack raises
\* struct.error because a slice is shorter than its format
Frame(tcp, raw) ==
    IF tcp
    THEN IF Len(Slice(raw, 0, 8)) # 8 \/ Len(Slice(raw, 8, 16)) # 8
         THEN [err |-> TRUE, h0 |-> 0, data |-> << >>]
         ELSE [err |-> FALSE, h0 |-> LittleEndian(Slice(raw, 8, 10)),
               data |-> Slice(raw, 16, Len(raw))]
    ELSE IF Len(Slice(raw, 0, 8)) # 8
         THEN [err |-> TRUE, h0 |-> 0, data |-> << >>]
         ELSE [err |-> FALSE, h0 |-> LittleEndian(Slice(raw, 0, 2)),
               data |-> Slice(raw, 8, Len(raw))]

\* a filter that forgets the command code
PassesFilter_NoCmdCheck(f) == Len(f.data) # 0

\* lines 368-371: the packet is processed only if header[0] == 500 and data is not empty
PassesFilter(f) == f.h0 = 500 /\ Len(f.data) # 0

\* line 373: the condition of the record loop
RecordLoopCond(data) == Len(data) >= 10

\* lines 373-376: what the caller's "data" is after one iteration of the record
\* loop (parse_user_data rebinds only its own local name)
DataAfterRecord(data) == data

\* how requests.post(..., timeout=5) followed by raise_for_status() can end: with
\* a 2xx answer, with a transport failure (connection error, timeout) or with an
\* HTTP error status; the last two raise requests.RequestException
PostOutcomes == {"ok", "transport", "http"}

\* send_attendance_request, lines 437-443: a POST is attempted unless stop_event
\* is set or BACKEND_URL is missing
PostAttempted(w, uid) == Truthy(uid) /\ ~w.stop /\ w.backend

\* the POSTs of a device made out of order: the newest one overtakes the others
SendPosts_Overtaking(w, ps, uid, seq, o) ==
    IF w.stop \/ ~w.backend \/ Len(ps) >= MaxPosts THEN ps
    ELSE <<[id |-> uid, cmd |-> w.pkt.cmd, plen |-> Len(w.pkt.payload),
            seq |-> seq, res |-> o]>> \o ps

\* send_attendance_request, lines 453-454: the one requests.post call of a
\* forwarded event, recorded with how it ended
SendPosts(w, ps, uid, seq, o) ==
    IF w.stop \/ ~w.backend \/ Len(ps) >= MaxPosts THEN ps
    ELSE Append(ps, [id |-> uid, cmd |-> w.pkt.cmd, plen |-> Len(w.pkt.payload),
                     seq |-> seq, res |-> o])

\* send_attendance_request, lines 458-461: RequestException and every other
\* exception are caught and logged; the caller goes on with its record loop
AfterForward(o) == "records"

LcOff == [pc |-> "off", stop |-> FALSE, endcap |-> FALSE, timed |-> FALSE, tcp |-> FALSE,
          backend |-> FALSE, conn |-> FALSE, raw |-> << >>, pkt |-> NoPacket, data |-> << >>,
          cleanup |-> << >>, logged |-> FALSE]

\* the wrapper has connected and start_live_capture_thread has started the thread
LiveInit ==
    /\ \E timed \in BOOLEAN, tcp \in BOOLEAN, backend \in BOOLEAN :
         lc = [LcOff EXCEPT !.pc = "setup", !.timed = timed, !.tcp = tcp,
                            !.backend = backend, !.conn = TRUE]
    /\ posts = << >>
    /\ stopper = "idle"
    /\ npk = 0

LiveIdle == lc = LcOff /\ posts = << >> /\ stopper = "idle" /\ npk = 0

\* lines 343-348: cancel_capture, verify_user, enable_device, reg_event(1),
\* settimeout(new_timeout) with new_timeout = None, end_live_capture = False;
\* an exception in any of them goes to the outer except and the finally block
LcSetup(ok) ==
    /\ lc.pc = "setup"
    /\ lc' = IF ok THEN [lc EXCEPT !.pc = "loopcond", !.timed = FALSE, !.endcap = FALSE]
             ELSE [lc EXCEPT !.pc = "finally"]
    /\ UNCHANGED <<posts, stopper, npk, supVars, parseVars, dispVars, connVars, healthVars, zkVars, linkVars, scopeVars, freshVars>>

\* line 352
LcLoopCond ==
    /\ lc.pc = "loopcond"
    /\ lc' = [lc EXCEPT !.pc = IF ~lc.stop /\ ~lc.endcap THEN "recv" ELSE "finally"]
    /\ UNCHANGED <<posts, stopper, npk, supVars, parseVars, dispVars, connVars, healthVars, zkVars, linkVars, scopeVars, freshVars>>

\* how sock.recv(1032) can end: with data, with another exception, and, only if
\* the socket has a timeout, with socket.timeout or BlockingIOError
RecvOutcomes == {"data", "error"} \cup (IF lc.timed THEN {"timeout", "wouldblock"} ELSE {})

\* an exception in the loop body that ends the read loop
ExceptClause_Ends(o) == "finally"

\* the except clauses, lines 378-385: socket.timeout and BlockingIOError continue
\* with the loop test, every other Exception is logged and followed by sleep(1)
ExceptClause(o) == IF o \in {"timeout", "wouldblock"} THEN "loopcond" ELSE "errsleep"

\* lines 354-356 and the except clauses 378-385
LcRecv(o, pkt) ==
    /\ lc.pc = "recv" /\ o \in RecvOutcomes
    /\ IF o = "data"
       THEN /\ npk < MaxPackets
            /\ lc' = [lc EXCEPT !.pc = "frame", !.pkt = pkt, !.raw = RawPacket(lc.tcp, pkt)]
            /\ npk' = npk + 1
       ELSE /\ pkt = NoPacket
            /\ lc' = [lc EXCEPT !.pc = ExceptClause(o)]
            /\ UNCHANGED npk
    /\ UNCHANGED <<posts, stopper, supVars, parseVars, dispVars, connVars, healthVars, zkVars, linkVars, scopeVars, freshVars>>

\* lines 359-371: framing and filter
LcFrame ==
    /\ lc.pc = "frame"
    /\ LET f == Frame(lc.tcp, lc.raw) IN
         lc' = IF f.err THEN [lc EXCEPT !.pc = ExceptClause("error")]
               ELSE IF ~PassesFilter(f) THEN [lc EXCEPT !.pc = "loopcond"]
               ELSE [lc EXCEPT !.pc = "records", !.data = f.data]
    /\ UNCHANGED <<posts, stopper, npk, supVars, parseVars, dispVars, connVars, healthVars, zkVars, linkVars, scopeVars, freshVars>>

\* lines 373-376: the loop test and one iteration of the record loop
LcRecord ==
    /\ lc.pc = "records"
    /\ IF RecordLoopCond(lc.data)
       THEN \E o \in PostOutcomes :
            LET uid == parse_user_data(lc.data) IN
            /\ posts' = IF Truthy(uid) THEN SendPosts(lc, posts, uid, npk, o) ELSE posts
            /\ lc' = [lc EXCEPT !.data = DataAfterRecord(lc.data),
                                !.pc = IF PostAttempted(lc, uid) THEN AfterForward(o)
                                       ELSE "records"]
       ELSE /\ lc' = [lc EXCEPT !.pc = "loopcond"]
            /\ UNCHANGED posts
    /\ UNCHANGED <<stopper, npk, supVars, parseVars, dispVars, connVars, healthVars, zkVars, linkVars, scopeVars, freshVars>>

\* lines 383-385: log, time.sleep(1), next iteration
LcErrSleep ==
    /\ lc.pc = "errsleep"
    /\ lc' = [lc EXCEPT !.pc = "loopcond"]
    /\ UNCHANGED <<posts, stopper, npk, supVars, parseVars, dispVars, connVars, healthVars, zkVars, linkVars, scopeVars, freshVars>>

\* lines 389-395, the finally clause: one try holds settimeout(None) and then
\* reg_event(0); what either raises is logged by the except clause and the
\* thread ends.  cleanup lists the steps that were called.
LcFinally(sock_ok, reg_ok) ==
    /\ lc.pc = "finally"
    /\ sock_ok \/ reg_ok          \* reg_event(0) has an outcome only if it is called
    /\ lc' = IF ~sock_ok
             THEN [lc EXCEPT !.pc = "ended", !.cleanup = <<"settimeout">>, !.logged = TRUE]
             ELSE [lc EXCEPT !.pc = "ended", !.timed = FALSE,
                             !.cleanup = <<"settimeout", "reg_event">>,
                             !.logged = ~reg_ok]
    /\ UNCHANGED <<posts, stopper, npk, supVars, parseVars, dispVars, connVars, healthVars, zkVars, linkVars, scopeVars, freshVars>>

\* stop(), lines 519-536: stop_event.set(), end_live_capture = True, reg_event(0),
\* then join(timeout=5) if the thread is alive
StopBegin ==
    /\ stopper = "idle"
    /\ lc' = [lc EXCEPT !.stop = TRUE, !.endcap = TRUE]
    /\ stopper' = "join"
    /\ UNCHANGED <<posts, npk, supVars, parseVars, dispVars, connVars, healthVars, zkVars, linkVars, scopeVars, freshVars>>

\* stop(), lines 536-544: the join has returned (the thread ended or 5 s passed),
\* disconnect
StopEnd ==
    /\ stopper = "join"
    /\ \E ok \in BOOLEAN : lc' = [lc EXCEPT !.conn = IF ok THEN FALSE ELSE lc.conn]
    /\ stopper' = "done"
    /\ UNCHANGED <<posts, npk, supVars, parseVars, dispVars, connVars, healthVars, zkVars, linkVars, scopeVars, freshVars>>

LiveNext ==
    \/ \E ok \in BOOLEAN : LcSetup(ok)
    \/ LcLoopCond
    \/ \E o \in {"data", "error", "timeout", "wouldblock"}, pkt \in Packets \cup {NoPacket} : LcRecv(o, pkt)
    \/ LcFrame
    \/ LcRecord
    \/ LcErrSleep
    \/ \E sock_ok \in BOOLEAN, reg_ok \in BOOLEAN : LcFinally(sock_ok, reg_ok)
    \/ StopBegin
    \/ StopEnd

(***************************************************************************)
(* ZktecoWrapper.connect                                                   *)
(***************************************************************************)
\* DEVICE_CONNECT_RETRIES is drawn from 0..MaxRetriesEnv
MaxRetriesEnv == 4
MaxLinkCalls == 3
NumCallers == 2
MaxScopeOps == 3
MaxBodyCalls == 2
MaxClock == 100
MaxRestarts == 2
\* DEVICE_RETRY_DELAY: zero, the values of the examples, and values that reach
\* the cap at the second and at the first wait
BaseDelays == {0, 1, 6, 35, 61}

\* the delay without its cap
RetryDelay_NoCap(base_delay, retry_count) == base_delay * retry_count

\* line 491: delay = min(base_delay * retry_count, 60)
RetryDelay(base_delay, retry_count) ==
    IF base_delay * retry_count <= 60 THEN base_delay * retry_count ELSE 60

\* the wrapper as __init__ leaves it before it calls connect (lines 277-292):
\* zk created and not connected, no thread, stop_event clear
ConnFresh(mr, bd, elc) ==
    [pc |-> "begin", max_retries |-> mr, base_delay |-> bd, elc |-> elc,
     retry_count |-> 0, attempts |-> 0, failed |-> 0, waits |-> << >>,
     stop |-> FALSE, stop_in_wait |-> FALSE, attempts_at_stop |-> 0,
     is_connect |-> FALSE, thread |-> FALSE, result |-> FALSE]

ConnInit ==
    \E mr \in 0..MaxRetriesEnv, bd \in BaseDelays, elc \in BOOLEAN : cn = ConnFresh(mr, bd, elc)

ConnIdle == cn = [ConnFresh(0, 0, FALSE) EXCEPT !.pc = "off"]

\* lines 466-474: the fast return when the link is connected and answers a ping,
\* otherwise the retry settings are read
ConnBegin ==
    /\ cn.pc = "begin"
    /\ \E ping \in BOOLEAN :
         cn' = IF cn.is_connect /\ ping
               THEN [cn EXCEPT !.pc = "returned", !.result = TRUE,
                               !.thread = cn.thread \/ cn.elc]
               ELSE [cn EXCEPT !.pc = "loopcond", !.retry_count = 0]
    /\ UNCHANGED <<supVars, liveVars, parseVars, dispVars, healthVars, zkVars, linkVars, scopeVars, freshVars>>

\* the retry loop goes on after stop_event was set
ConnLoopCond_NoStop ==
    /\ cn.pc = "loopcond"
    /\ cn' = IF cn.retry_count < cn.max_retries
             THEN [cn EXCEPT !.pc = "attempt"]
             ELSE [cn EXCEPT !.pc = "returned", !.result = FALSE]
    /\ UNCHANGED <<supVars, liveVars, parseVars, dispVars, healthVars, zkVars, linkVars, scopeVars, freshVars>>

\* line 476, and line 501 when the condition is false
ConnLoopCond ==
    /\ cn.pc = "loopcond"
    /\ cn' = IF cn.retry_count < cn.max_retries /\ ~cn.stop
             THEN [cn EXCEPT !.pc = "attempt"]
             ELSE [cn EXCEPT !.pc = "returned", !.result = FALSE]
    /\ UNCHANGED <<supVars, liveVars, parseVars, dispVars, healthVars, zkVars, linkVars, scopeVars, freshVars>>

\* the live-capture thread is started before the driver connects
ConnAttempt_StartFirst(ok) ==
    /\ cn.pc = "attempt"
    /\ cn' = IF ok
             THEN [cn EXCEPT !.pc = "returned", !.result = TRUE, !.is_connect = TRUE,
                             !.attempts = @ + 1, !.retry_count = 0, !.thread = cn.elc]
             ELSE [cn EXCEPT !.pc = "returned", !.result = FALSE, !.thread = cn.elc,
                             !.attempts = @ + 1, !.failed = @ + 1, !.retry_count = @ + 1]
    /\ UNCHANGED <<supVars, liveVars, parseVars, dispVars, healthVars, zkVars, linkVars, scopeVars, freshVars>>

\* lines 477-499: one zk.connect() call.  On success the thread is started if
\* asked for and True is returned; on an exception retry_count is increased and
\* either the wait is begun or the loop is left (lines 497-499, 501).
ConnAttempt(ok) ==
    /\ cn.pc = "attempt"
    /\ cn' = IF ok
             THEN [cn EXCEPT !.pc = "returned", !.result = TRUE, !.is_connect = TRUE,
                             !.attempts = @ + 1, !.retry_count = 0, !.thread = cn.elc]
             ELSE IF cn.retry_count + 1 < cn.max_retries
             THEN [cn EXCEPT !.pc = "wait", !.attempts = @ + 1, !.failed = @ + 1,
                             !.retry_count = @ + 1,
                             !.waits = Append(@, [delay |-> RetryDelay(cn.base_delay,
                                                                       cn.retry_count + 1),
                                                  cut |-> FALSE])]
             ELSE [cn EXCEPT !.pc = "returned", !.result = FALSE,
                             !.attempts = @ + 1, !.failed = @ + 1, !.retry_count = @ + 1]
    /\ UNCHANGED <<supVars, liveVars, parseVars, dispVars, healthVars, zkVars, linkVars, scopeVars, freshVars>>

\* line 496: stop_event.wait(delay) returns, after the delay or, if stop_event is
\* set, at once (cut)
ConnWaitEnd ==
    /\ cn.pc = "wait"
    /\ cn' = [cn EXCEPT !.pc = "loopcond", !.waits[Len(cn.waits)].cut = cn.stop]
    /\ UNCHANGED <<supVars, liveVars, parseVars, dispVars, healthVars, zkVars, linkVars, scopeVars, freshVars>>

\* stop(), line 524: another thread sets stop_event
ConnStop ==
    /\ cn.pc \in {"begin", "loopcond", "attempt", "wait"} /\ ~cn.stop
    /\ cn' = [cn EXCEPT !.stop = TRUE, !.stop_in_wait = (cn.pc = "wait"),
                        !.attempts_at_stop = cn.attempts]
    /\ UNCHANGED <<supVars, liveVars, parseVars, dispVars, healthVars, zkVars, linkVars, scopeVars, freshVars>>

ConnNext ==
    \/ ConnBegin
    \/ ConnLoopCond
    \/ \E ok \in BOOLEAN : ConnAttempt(ok)
    \/ ConnWaitEnd
    \/ ConnStop

(***************************************************************************)
(* ZktecoWrapper.is_healthy                                                *)
(***************************************************************************)
HealthInit ==
    \E zk \in BOOLEAN, c \in BOOLEAN, th \in ThreadStates, a \in AgeSamples, p \in PingOutcomes :
        hc = [zk |-> zk, is_connect |-> zk /\ c, thread |-> th, age |-> a, ping |-> p,
              done |-> FALSE, out |-> "none"]

HealthIdle == hc = [zk |-> FALSE, is_connect |-> FALSE, thread |-> "none", age |-> 0,
                    ping |-> "ok", done |-> FALSE, out |-> "off"]

HealthCall ==
    /\ ~hc.done /\ hc.out = "none"
    /\ hc' = [hc EXCEPT !.done = TRUE,
                        !.out = HealthCheck(hc.zk, hc.is_connect, hc.thread, hc.age, hc.ping)]
    /\ UNCHANGED <<supVars, liveVars, parseVars, dispVars, connVars, zkVars, linkVars, scopeVars, freshVars>>

HealthNext == HealthCall

(***************************************************************************)
(* ZkService: the operations on one device                                 *)
(***************************************************************************)
\* connect(self, max_retries: int = 3)
connect_max_retries == 3

\* operations wrapped in "try: _ensure_connection_and_disable() ... finally:
\* enable_device()" (cancel_enroll_user spells the same steps out)
GuardedOps == {"create_user", "get_all_users", "delete_user", "enroll_user",
               "cancel_enroll_user", "delete_user_template", "get_user_template",
               "set_user_template", "get_attendance", "clear_attendance", "get_templates"}
\* operations that only call self.connect() and never disable or enable
UnguardedOps == {"get_device_info", "test_voice", "restart_device", "poweroff_device"}
ZkOps == GuardedOps \cup UnguardedOps

\* byte lengths of the template passed to set_user_template
TemplateLens == {0, 299, 300, 1000, 2000, 2001}

\* the size check with the lower bound excluded
TemplateOk_Strict(n) == 300 < n /\ n <= 2000

\* line 435: 300 <= template_size <= 2000
TemplateOk(n) == 300 <= n /\ n <= 2000

\* the driver calls of the operation's body, in order
BodyCalls(op, known) ==
    CASE op = "create_user" -> <<"set_user">>
      [] op = "get_all_users" -> <<"get_users">>
      [] op = "delete_user" -> <<"delete_user">>
      [] op = "enroll_user" -> <<"enroll_user">>
      [] op = "cancel_enroll_user" -> <<"cancel_capture">>
      [] op = "delete_user_template" -> <<"delete_user_template">>
      [] op = "get_user_template" -> <<"get_user_template">>
      [] op = "set_user_template" ->
            IF known THEN <<"get_users", "HR_save_usertemplates">>
            ELSE <<"get_users", "set_user", "get_users", "HR_save_usertemplates">>
      [] op = "get_attendance" -> <<"get_attendance">>
      [] op = "clear_attendance" -> <<"clear_attendance">>
      [] op = "get_templates" -> <<"get_templates">>
      [] op = "get_device_info" -> <<"get_device_name", "get_firmware_version",
                                     "get_platform", "get_time", "get_users",
                                     "get_templates">>
      [] op = "test_voice" -> <<"test_voice">>
      [] op = "restart_device" -> <<"restart">>
      [] op = "poweroff_device" -> <<"poweroff">>

\* the service after __init__: self.zk is None when the driver object could not
\* be built, otherwise connected or not; nothing is in progress
ZkFresh(zk, c) ==
    [pc |-> "idle", op |-> "none", zk |-> zk, is_connect |-> zk /\ c, enabled |-> TRUE,
     calls |-> << >>, todo |-> << >>, exc |-> FALSE, result |-> "none",
     len |-> 0, name_ok |-> TRUE, known |-> TRUE, appears |-> TRUE,
     valid |-> "none", at_first |-> "none"]

ZkInit == \E zk \in BOOLEAN, c \in BOOLEAN : zs = ZkFresh(zk, c)

\* no ZkService operation is in progress
ZkIdle == zs = [ZkFresh(FALSE, FALSE) EXCEPT !.pc = "off"]

\* n copies of a driver call
RECURSIVE Repeat(_, _)
Repeat(c, n) == IF n = 0 THEN << >> ELSE <<c>> \o Repeat(c, n - 1)

\* an operation is called.  create_user checks the name before its try block
\* (lines 184-185): ValueError, nothing else runs.
ZkInvoke(op, len, name_ok, known, appears) ==
    /\ zs.pc = "idle"
    /\ (op # "set_user_template" => len = 0 /\ known /\ appears)
    /\ (op # "create_user" => name_ok)
    /\ (known => appears)
    /\ zs' = IF op = "create_user" /\ ~name_ok
             THEN [zs EXCEPT !.op = op, !.name_ok = FALSE, !.pc = "done", !.result = "raised"]
             ELSE [zs EXCEPT !.op = op, !.len = len, !.name_ok = name_ok, !.known = known,
                             !.appears = appears, !.pc = "connect",
                             !.todo = BodyCalls(op, known)]
    /\ UNCHANGED <<supVars, liveVars, parseVars, dispVars, connVars, healthVars, linkVars, scopeVars, freshVars>>

\* self.connect(), lines 64-102: False without a driver object, True at once when
\* is_connected(), otherwise up to three zk.connect() calls, the k-th of which
\* succeeds (ok) or all three fail.  A guarded operation raises when it returns
\* False (lines 157-158, 337-338); the others ignore the result.
ZkConnect(k, ok, ping) ==
    /\ zs.pc = "connect"
    /\ k \in 1..connect_max_retries /\ (~ok => k = connect_max_retries)
    /\ LET fast == zs.zk /\ zs.is_connect /\ ping
           tried == zs.zk /\ ~fast
           c == zs.zk /\ (fast \/ ok)
       IN zs' = [zs EXCEPT
                   !.calls = IF tried THEN @ \o Repeat("connect", k) ELSE @,
                   !.is_connect = IF tried /\ ok THEN TRUE ELSE @,
                   !.exc = (zs.op \in GuardedOps /\ ~c),
                   !.pc = IF zs.op \in UnguardedOps THEN "body"
                          ELSE IF c THEN "disable" ELSE "enable"]
    /\ UNCHANGED <<supVars, liveVars, parseVars, dispVars, connVars, healthVars, linkVars, scopeVars, freshVars>>

\* disable_device(), lines 135-148: zk.disable_device(); a failure is logged and
\* the operation goes on (lines 160-161, 344)
ZkDisable(ok) ==
    /\ zs.pc = "disable" /\ (ok => zs.is_connect)
    /\ zs' = [zs EXCEPT !.calls = IF zs.zk THEN Append(@, "disable_device") ELSE @,
                        !.enabled = IF zs.zk /\ ok THEN FALSE ELSE @,
                        !.pc = IF zs.op = "set_user_template" THEN "validate" ELSE "body"]
    /\ UNCHANGED <<supVars, liveVars, parseVars, dispVars, connVars, healthVars, linkVars, scopeVars, freshVars>>

\* set_user_template, lines 433-436: the size check, made after
\* _ensure_connection_and_disable()
ZkValidate ==
    /\ zs.pc = "validate"
    /\ zs' = IF TemplateOk(zs.len)
             THEN [zs EXCEPT !.valid = "ok", !.pc = "body"]
             ELSE [zs EXCEPT !.valid = "rejected", !.exc = TRUE, !.pc = "enable"]
    /\ UNCHANGED <<supVars, liveVars, parseVars, dispVars, connVars, healthVars, linkVars, scopeVars, freshVars>>

\* the refreshed user list is used without looking for the user in it
UserMissing_Unchecked(op, known, appears, todo) == FALSE

\* set_user_template, lines 455-460: after the refreshing get_users() the user
\* that was just created is still not in the list
UserMissing(op, known, appears, todo) ==
    /\ op = "set_user_template" /\ ~known /\ ~appears
    /\ Head(todo) = "get_users" /\ Len(todo) = 2

\* where the operation goes when its body is over or has raised
AfterBody(op) == IF op \in GuardedOps THEN "enable" ELSE "done"

\* the next driver call of the body; it can succeed only on a connected driver.
\* Without a driver object the call is an AttributeError and nothing is sent.  get_device_info swallows every failure
\* (lines 511-541); test_voice, restart_device and poweroff_device return False;
\* the guarded operations go to their finally clause with the exception.
\* set_user_template raises when the user is still missing after its creation
\* (lines 458-460).
ZkBody(ok) ==
    /\ zs.pc = "body" /\ zs.todo # << >> /\ (ok => zs.is_connect)
    /\ LET c == Head(zs.todo)
           good == zs.zk /\ ok
           missing == good /\ UserMissing(zs.op, zs.known, zs.appears, zs.todo)
           goon == IF zs.op = "get_device_info" THEN TRUE ELSE good /\ ~missing
           rest == Tail(zs.todo)
       IN zs' = [zs EXCEPT
                   !.calls = IF zs.zk THEN Append(@, c) ELSE @,
                   !.at_first = IF zs.zk /\ @ = "none"
                                THEN (IF zs.enabled THEN "enabled" ELSE "disabled")
                                ELSE @,
                   !.todo = IF goon THEN rest ELSE << >>,
                   !.exc = (zs.op \in GuardedOps /\ ~goon),
                   !.pc = IF goon /\ rest # << >> THEN "body" ELSE AfterBody(zs.op),
                   !.result = IF (~goon \/ rest = << >>) /\ zs.op \in UnguardedOps
                              THEN "returned" ELSE @]
    /\ UNCHANGED <<supVars, liveVars, parseVars, dispVars, connVars, healthVars, linkVars, scopeVars, freshVars>>

\* the finally clause: enable_device(), lines 120-133, then the return or the
\* re-raise (get_templates returns None instead, lines 604-606)
ZkEnable(ok) ==
    /\ zs.pc = "enable" /\ (ok => zs.is_connect)
    /\ zs' = [zs EXCEPT !.calls = IF zs.zk THEN Append(@, "enable_device") ELSE @,
                        !.enabled = IF zs.zk /\ ok THEN TRUE ELSE @,
                        !.pc = "done",
                        !.result = IF zs.exc /\ zs.op # "get_templates"
                                   THEN "raised" ELSE "returned"]
    /\ UNCHANGED <<supVars, liveVars, parseVars, dispVars, connVars, healthVars, linkVars, scopeVars, freshVars>>

ZkNext ==
    \/ \E op \in ZkOps, len \in TemplateLens, name_ok \in BOOLEAN,
          known \in BOOLEAN, appears \in BOOLEAN : ZkInvoke(op, len, name_ok, known, appears)
    \/ \E k \in 1..connect_max_retries, ok \in BOOLEAN, ping \in BOOLEAN : ZkConnect(k, ok, ping)
    \/ \E ok \in BOOLEAN : ZkDisable(ok)
    \/ ZkValidate
    \/ \E ok \in BOOLEAN : ZkBody(ok)
    \/ \E ok \in BOOLEAN : ZkEnable(ok)

(***************************************************************************)
(* MultiDeviceService: execute_on_all_devices, execute_on_selected_devices *)
(***************************************************************************)
\* devices 1..n are registered, n <= NumMdDevices
NumMdDevices == 5
\* length of the device_ids list of a selected dispatch
MaxIds == 3

UnknownIds == {999}
MdIds == (1..NumMdDevices) \cup UnknownIds
\* the ids a selected dispatch may name
SelectIds == {1, 2} \cup UnknownIds
IdLists == UNION {[1..n -> SelectIds] : n \in 0..MaxIds}

\* operation names: a ZkService method, an attribute that is no method, no attribute
OpNames == {"get_all_users", "ip", "no_such_operation"}
GetAttr(op) == IF op = "get_all_users" THEN "method"
               ELSE IF op = "ip" THEN "value"
               ELSE "none"

\* the "if not method" check is missing and a missing operation returns None
ExecOutcomes_NoCheck(d, op) ==
    IF d \notin md_devices THEN {[raised |-> TRUE, error |-> "Device not found"]}
    ELSE IF GetAttr(op) = "method"
         THEN {[raised |-> FALSE, error |-> ""], [raised |-> TRUE, error |-> "device error"]}
    ELSE {[raised |-> FALSE, error |-> ""]}

\* execute_on_device: how the call can end on device d.  A method runs on the
\* device and returns or raises; anything else raises here.
ExecOutcomes(d, op) ==
    IF d \notin md_devices THEN {[raised |-> TRUE, error |-> "Device not found"]}
    ELSE IF GetAttr(op) = "none" THEN {[raised |-> TRUE, error |-> "Operation not supported"]}
    ELSE IF GetAttr(op) = "value" THEN {[raised |-> TRUE, error |-> "object is not callable"]}
    ELSE {[raised |-> FALSE, error |-> ""], [raised |-> TRUE, error |-> "device error"]}

\* an executor that accepts any size
PoolOk_AnySize(n) == TRUE

\* ThreadPoolExecutor(max_workers=n) raises ValueError unless n > 0
PoolOk(n) == n > 0

\* a future is submitted for every requested id, registered or not
SelectedTargets_NoFilter(ids, registered) == ids

\* the ids for which a future is submitted, in submission order
RECURSIVE SelectedTargets(_, _)
SelectedTargets(ids, registered) ==
    IF ids = << >> THEN << >>
    ELSE IF Head(ids) \in registered
         THEN <<Head(ids)>> \o SelectedTargets(Tail(ids), registered)
         ELSE SelectedTargets(Tail(ids), registered)

RECURSIVE SetToSeq(_)
SetToSeq(S) == IF S = {} THEN << >>
               ELSE LET m == CHOOSE x \in S : \A y \in S : x <= y
                    IN <<m>> \o SetToSeq(S \ {m})

NewFutures(targets) ==
    [i \in 1..Len(targets) |->
        [dev |-> targets[i], st |-> "pending", error |-> "", collected |-> FALSE]]

NoEntry == [present |-> FALSE, success |-> FALSE, error |-> ""]
\* lines 101-112 / 133-144: the entry built from a finished future.  Every
\* configured device has a 'name' (the documented configuration format), so
\* building the entry does not raise.
EntryOf(f) ==
    IF f.st = "raised"
    THEN [present |-> TRUE, success |-> FALSE, error |-> f.error]
    ELSE [present |-> TRUE, success |-> TRUE, error |-> ""]

NoRequest == [kind |-> "none", ids |-> << >>, op |-> ""]

MdInit ==
    /\ \E n \in 0..NumMdDevices : md_devices = 1..n
    /\ md_req = NoRequest
    /\ md_fut = << >>
    /\ md_results = [d \in MdIds |-> NoEntry]
    /\ md_pc = "idle"

DispIdle ==
    /\ md_devices = {}
    /\ md_req = NoRequest
    /\ md_fut = << >>
    /\ md_results = [d \in MdIds |-> NoEntry]
    /\ md_pc = "idle"

\* execute_on_all_devices up to the submission of the futures
MdDispatchAll(op) ==
    /\ md_pc = "idle"
    /\ md_req' = [kind |-> "all", ids |-> << >>, op |-> op]
    /\ IF PoolOk(Cardinality(md_devices))
       THEN /\ md_fut' = NewFutures(SetToSeq(md_devices))
            /\ md_pc' = "running"
       ELSE /\ md_pc' = "raised"
            /\ UNCHANGED md_fut
    /\ UNCHANGED <<md_devices, md_results, supVars, liveVars, parseVars, connVars, healthVars, zkVars, linkVars, scopeVars, freshVars>>

\* execute_on_selected_devices up to the submission of the futures
MdDispatchSelected(ids, op) ==
    /\ md_pc = "idle"
    /\ md_req' = [kind |-> "selected", ids |-> ids, op |-> op]
    /\ IF PoolOk(Len(ids))
       THEN /\ md_fut' = NewFutures(SelectedTargets(ids, md_devices))
            /\ md_pc' = "running"
       ELSE /\ md_pc' = "raised"
            /\ UNCHANGED md_fut
    /\ UNCHANGED <<md_devices, md_results, supVars, liveVars, parseVars, connVars, healthVars, zkVars, linkVars, scopeVars, freshVars>>

\* a pool thread runs _safe_execute for future i
MdTaskRun(i) ==
    /\ md_pc = "running" /\ i \in DOMAIN md_fut /\ md_fut[i].st = "pending"
    /\ \E o \in ExecOutcomes(md_fut[i].dev, md_req.op) :
         md_fut' = [md_fut EXCEPT ![i].st = IF o.raised THEN "raised" ELSE "ok",
                                  ![i].error = o.error]
    /\ UNCHANGED <<md_devices, md_req, md_results, md_pc, supVars, liveVars, parseVars, connVars, healthVars, zkVars, linkVars, scopeVars, freshVars>>

\* future.result() outside any try: the first exception leaves the dispatch
MdCollect_NoCatch(i) ==
    /\ md_pc = "running" /\ i \in DOMAIN md_fut
    /\ md_fut[i].st # "pending" /\ ~md_fut[i].collected
    /\ IF md_fut[i].st = "raised"
       THEN /\ md_pc' = "raised"
            /\ UNCHANGED md_results
       ELSE /\ md_results' = [md_results EXCEPT ![md_fut[i].dev] =
                                 [present |-> TRUE, success |-> TRUE, error |-> ""]]
            /\ UNCHANGED md_pc
    /\ md_fut' = [md_fut EXCEPT ![i].collected = TRUE]
    /\ UNCHANGED <<md_devices, md_req, supVars, liveVars, parseVars, connVars, healthVars, zkVars, linkVars, scopeVars, freshVars>>

\* as_completed yields the finished future i; its entry is stored
MdCollect(i) ==
    /\ md_pc = "running" /\ i \in DOMAIN md_fut
    /\ md_fut[i].st # "pending" /\ ~md_fut[i].collected
    /\ md_results' = [md_results EXCEPT ![md_fut[i].dev] = EntryOf(md_fut[i])]
    /\ md_fut' = [md_fut EXCEPT ![i].collected = TRUE]
    /\ UNCHANGED <<md_devices, md_req, md_pc, supVars, liveVars, parseVars, connVars, healthVars, zkVars, linkVars, scopeVars, freshVars>>

\* every future was collected: the executor is left and results is returned
MdReturn ==
    /\ md_pc = "running"
    /\ \A i \in DOMAIN md_fut : md_fut[i].collected
    /\ md_pc' = "returned"
    /\ UNCHANGED <<md_devices, md_req, md_fut, md_results, supVars, liveVars, parseVars, connVars, healthVars, zkVars, linkVars, scopeVars, freshVars>>

MdNext ==
    \/ \E op \in OpNames : MdDispatchAll(op)
    \/ \E ids \in IdLists, op \in OpNames : MdDispatchSelected(ids, op)
    \/ \E i \in 1..(NumMdDevices + MaxIds) : MdTaskRun(i)
    \/ \E i \in 1..(NumMdDevices + MaxIds) : MdCollect(i)
    \/ MdReturn

(***************************************************************************)
(* Initial state: the service object has been constructed.                 *)
(***************************************************************************)
SupFresh ==
    /\ device_wrappers = << >>
    /\ sess = [s \in Sessions |-> NoSession]
    /\ nsess = 0
    /\ status = "starting"
    /\ shutdown_event = FALSE
    /\ task = [d \in Devices |-> [st |-> "none", w |-> 0]]
    /\ mainpc = "init"
    /\ mon = [pc |-> "off", q |-> << >>, dev |-> 0, old |-> 0, new |-> 0]
    /\ sd = [pc |-> "idle", caller |-> "none", pos |-> 0, len |-> 0, used |-> 0,
             cur |-> 0, returned |-> 0]
    /\ sigs = 0

SupIdle == devices = {} /\ SupFresh

InHandler == sd.pc # "idle" /\ sd.caller = "signal"
Alive == mainpc # "exited"

(***************************************************************************)
(* main() and start()                                                      *)
(***************************************************************************)
\* start(), up to the submission of one start_device_capture task per device;
\* with no device configured it fails and main exits
MainStart ==
    /\ UNCHANGED <<liveVars, parseVars, dispVars, connVars, healthVars, zkVars, linkVars, scopeVars, freshVars>>
    /\ mainpc = "init" /\ ~InHandler
    /\ IF devices = {}
       THEN /\ status' = "error"
            /\ mainpc' = "exited"
            /\ UNCHANGED task
       ELSE /\ status' = "starting"
            /\ task' = [d \in Devices |->
                          IF d \in devices THEN [st |-> "queued", w |-> 0] ELSE task[d]]
            /\ mainpc' = "wait"
    /\ UNCHANGED <<devices, device_wrappers, sess, nsess, shutdown_event, mon, sd, sigs>>

\* start_device_capture, first half: the wrapper is constructed (connect is tried)
TaskCreate(d) ==
    /\ UNCHANGED <<liveVars, parseVars, dispVars, connVars, healthVars, zkVars, linkVars, scopeVars, freshVars>>
    /\ Alive /\ task[d].st = "queued" /\ nsess < MaxSessions
    /\ \E o \in InitOutcomes :
         sess' = [sess EXCEPT ![nsess + 1] = NewWrapper(d, o)]
    /\ nsess' = nsess + 1
    /\ task' = [task EXCEPT ![d] = [st |-> "created", w |-> nsess + 1]]
    /\ UNCHANGED <<devices, device_wrappers, status, shutdown_event, mainpc, mon, sd, sigs>>

\* a start_device_capture whose failure empties the registry
StartInstall_AllOrNothing(reg, d, w) == IF sess[w].zk THEN DictSet(reg, d, w) ELSE << >>

\* start_device_capture, second half: "if wrapper.zk: self.device_wrappers[device_id] = wrapper"
StartInstall(reg, d, w) == IF sess[w].zk THEN DictSet(reg, d, w) ELSE reg

TaskInstall(d) ==
    /\ UNCHANGED <<liveVars, parseVars, dispVars, connVars, healthVars, zkVars, linkVars, scopeVars, freshVars>>
    /\ Alive /\ task[d].st = "created"
    /\ device_wrappers' = StartInstall(device_wrappers, d, task[d].w)
    /\ task' = [task EXCEPT ![d].st = "done"]
    /\ UNCHANGED <<devices, sess, nsess, status, shutdown_event, mainpc, mon, sd, sigs>>

\* start(): every future has been waited for and the executor has been left;
\* status becomes RUNNING and the monitor thread is started
MainPoolJoin ==
    /\ UNCHANGED <<liveVars, parseVars, dispVars, connVars, healthVars, zkVars, linkVars, scopeVars, freshVars>>
    /\ mainpc = "wait" /\ ~InHandler
    /\ \A d \in devices : task[d].st = "done"
    /\ status' = "running"
    /\ mon' = [mon EXCEPT !.pc = "loop"]
    /\ mainpc' = "loop"
    /\ UNCHANGED <<devices, device_wrappers, sess, nsess, shutdown_event, task, sd, sigs>>

(***************************************************************************)
(* shutdown()                                                              *)
(***************************************************************************)
\* shutdown() up to the creation of the iterator over self.device_wrappers.items()
ShutdownEnter(who) ==
    /\ status' = "stopping"
    /\ shutdown_event' = TRUE
    /\ sd' = [sd EXCEPT !.pc = "iter", !.caller = who, !.pos = 0,
                        !.len = DictLen(device_wrappers),
                        !.used = DictLen(device_wrappers), !.cur = 0]

\* signal_handler: runs shutdown() on the main thread, whatever main is doing
Signal ==
    /\ UNCHANGED <<liveVars, parseVars, dispVars, connVars, healthVars, zkVars, linkVars, scopeVars, freshVars>>
    /\ Alive /\ sd.pc = "idle" /\ sigs < MaxSignals
    /\ sigs' = sigs + 1
    /\ ShutdownEnter("signal")
    /\ UNCHANGED <<devices, device_wrappers, sess, nsess, task, mainpc, mon>>

\* main's wait loop ends once status is not RUNNING; its finally block calls shutdown()
MainLoopExit ==
    /\ UNCHANGED <<liveVars, parseVars, dispVars, connVars, healthVars, zkVars, linkVars, scopeVars, freshVars>>
    /\ mainpc = "loop" /\ sd.pc = "idle" /\ status # "running"
    /\ mainpc' = "final"
    /\ ShutdownEnter("main")
    /\ UNCHANGED <<devices, device_wrappers, sess, nsess, task, mon, sigs>>

\* The dict iterator's next(): "size" when the dict changed size, "keys" when an
\* entry is found after as many were yielded as the dict held, "end" or the index
DictIterNext(reg, it) ==
    LET nxt == {i \in DictLive(reg) : i > it.pos} IN
    IF it.used # DictLen(reg) THEN "size"
    ELSE IF nxt = {} THEN "end"
    ELSE IF it.len = 0 THEN "keys"
    ELSE "item"
DictIterIndex(reg, it) ==
    CHOOSE i \in DictLive(reg) : i > it.pos /\ \A j \in DictLive(reg) : j > it.pos => i <= j

\* the for loop of shutdown() takes the next wrapper and calls its stop()
ShutdownNext ==
    /\ UNCHANGED <<liveVars, parseVars, dispVars, connVars, healthVars, zkVars, linkVars, scopeVars, freshVars>>
    /\ Alive /\ sd.pc = "iter"
    /\ DictIterNext(device_wrappers, sd) = "item"
    /\ LET i == DictIterIndex(device_wrappers, sd)
           s == device_wrappers[i][2] IN
         /\ sess' = StopSignal(sess, s)
         /\ sd' = [sd EXCEPT !.pc = "join", !.pos = i, !.len = sd.len - 1, !.cur = s]
    /\ UNCHANGED <<devices, device_wrappers, nsess, status, shutdown_event, task, mainpc, mon, sigs>>

\* the stop() called by shutdown() returns: join returned, disconnect was tried
ShutdownJoin ==
    /\ UNCHANGED <<liveVars, parseVars, dispVars, connVars, healthVars, zkVars, linkVars, scopeVars, freshVars>>
    /\ Alive /\ sd.pc = "join"
    /\ \E ok \in BOOLEAN : sess' = StopDisconnect(sess, sd.cur, ok)
    /\ sd' = [sd EXCEPT !.pc = "iter"]
    /\ UNCHANGED <<devices, device_wrappers, nsess, status, shutdown_event, task, mainpc, mon, sigs>>

\* the loop is over: device_wrappers.clear(), status STOPPED, shutdown() returns;
\* returning to main's finally block ends the process
ShutdownReturn ==
    /\ UNCHANGED <<liveVars, parseVars, dispVars, connVars, healthVars, zkVars, linkVars, scopeVars, freshVars>>
    /\ Alive /\ sd.pc = "iter"
    /\ DictIterNext(device_wrappers, sd) = "end"
    /\ device_wrappers' = << >>
    /\ status' = "stopped"
    /\ sd' = [sd EXCEPT !.pc = "idle", !.caller = "none", !.cur = 0,
                        !.returned = sd.returned + 1]
    /\ mainpc' = IF sd.caller = "main" THEN "exited" ELSE mainpc
    /\ UNCHANGED <<devices, sess, nsess, shutdown_event, task, mon, sigs>>

\* the iterator raises RuntimeError: shutdown() is left by the exception.  Raised
\* in the signal handler it reaches the interrupted main code: inside start()'s
\* "try: future.result()" it may be caught and logged; in main's wait loop the
\* finally block runs shutdown() again; otherwise main exits with status 1.
ShutdownRaise ==
    /\ UNCHANGED <<liveVars, parseVars, dispVars, connVars, healthVars, zkVars, linkVars, scopeVars, freshVars>>
    /\ Alive /\ sd.pc = "iter"
    /\ DictIterNext(device_wrappers, sd) \in {"size", "keys"}
    /\ \/ /\ sd.caller = "signal" /\ mainpc = "wait"
          /\ sd' = [sd EXCEPT !.pc = "idle", !.caller = "none", !.cur = 0]
          /\ UNCHANGED <<mainpc, status, shutdown_event>>
       \/ /\ sd.caller = "signal" /\ mainpc = "loop"
          /\ mainpc' = "final"
          /\ ShutdownEnter("main")
       \/ /\ sd.caller = "main" \/ mainpc \in {"init", "wait"}
          /\ sd' = [sd EXCEPT !.pc = "idle", !.caller = "none", !.cur = 0]
          /\ mainpc' = "exited"
          /\ UNCHANGED <<status, shutdown_event>>
    /\ UNCHANGED <<devices, device_wrappers, sess, nsess, task, mon, sigs>>

(***************************************************************************)
(* monitor_devices() and restart_device()                                  *)
(***************************************************************************)
\* a monitor that also examines the configured devices that have no entry, by
\* the wrapper their initial start built
MonSnapshot_Configured(reg) ==
    LET o == SetToSeq({d \in devices : ~DictHas(reg, d) /\ task[d].w # 0})
    IN DictItems(reg) \o [i \in 1..Len(o) |-> <<o[i], task[o[i]].w>>]

\* line 197: "for device_id, wrapper in list(self.device_wrappers.items())"
MonSnapshot(reg) == DictItems(reg)

\* top of the while loop: leave on shutdown, else snapshot list(device_wrappers.items())
MonCycle ==
    /\ UNCHANGED <<liveVars, parseVars, dispVars, connVars, healthVars, zkVars, linkVars, scopeVars, freshVars>>
    /\ Alive /\ mon.pc = "loop"
    /\ IF shutdown_event
       THEN mon' = [mon EXCEPT !.pc = "done"]
       ELSE mon' = [mon EXCEPT !.pc = "check", !.q = MonSnapshot(device_wrappers)]
    /\ UNCHANGED <<devices, device_wrappers, sess, nsess, status, shutdown_event,
                   task, mainpc, sd, sigs>>

\* one iteration of the for loop: is_healthy(); an unhealthy wrapper starts
\* restart_device, which stops the wrapper now registered under that id
MonCheck ==
    /\ UNCHANGED <<liveVars, parseVars, dispVars, connVars, healthVars, zkVars, linkVars, scopeVars, freshVars>>
    /\ Alive /\ mon.pc = "check" /\ mon.q # << >>
    /\ LET d == Head(mon.q)[1]
           s == Head(mon.q)[2] IN
       \E h \in is_healthy(s) :
         IF h
         THEN /\ mon' = [mon EXCEPT !.q = Tail(mon.q)]
              /\ UNCHANGED sess
         ELSE IF DictHas(device_wrappers, d)
         THEN /\ mon' = [mon EXCEPT !.q = Tail(mon.q), !.pc = "r_join", !.dev = d,
                                    !.old = DictGet(device_wrappers, d), !.new = 0]
              /\ sess' = StopSignal(sess, DictGet(device_wrappers, d))
         ELSE /\ mon' = [mon EXCEPT !.q = Tail(mon.q), !.pc = "r_create", !.dev = d,
                                    !.old = 0, !.new = 0]
              /\ UNCHANGED sess
    /\ UNCHANGED <<devices, device_wrappers, nsess, status, shutdown_event,
                   task, mainpc, sd, sigs>>

\* the for loop is over: shutdown_event.wait(30), then the next cycle
MonWait ==
    /\ UNCHANGED <<liveVars, parseVars, dispVars, connVars, healthVars, zkVars, linkVars, scopeVars, freshVars>>
    /\ Alive /\ mon.pc = "check" /\ mon.q = << >>
    /\ mon' = [mon EXCEPT !.pc = "loop"]
    /\ UNCHANGED <<devices, device_wrappers, sess, nsess, status, shutdown_event,
                   task, mainpc, sd, sigs>>

\* restart_device: wrapper.stop() returns, then "del self.device_wrappers[device_id]";
\* a KeyError (the registry was cleared meanwhile) ends the restart in its except
MonStopped ==
    /\ UNCHANGED <<liveVars, parseVars, dispVars, connVars, healthVars, zkVars, linkVars, scopeVars, freshVars>>
    /\ Alive /\ mon.pc = "r_join"
    /\ \E ok \in BOOLEAN : sess' = StopDisconnect(sess, mon.old, ok)
    /\ IF DictHas(device_wrappers, mon.dev)
       THEN /\ device_wrappers' = DictDel(device_wrappers, mon.dev)
            /\ mon' = [mon EXCEPT !.pc = "r_create"]
       ELSE /\ mon' = [mon EXCEPT !.pc = "check"]
            /\ UNCHANGED device_wrappers
    /\ UNCHANGED <<devices, nsess, status, shutdown_event, task, mainpc, sd, sigs>>

\* restart_device: start_device_capture constructs the replacement wrapper
MonCreate ==
    /\ UNCHANGED <<liveVars, parseVars, dispVars, connVars, healthVars, zkVars, linkVars, scopeVars, freshVars>>
    /\ Alive /\ mon.pc = "r_create" /\ nsess < MaxSessions
    /\ \E o \in InitOutcomes :
         sess' = [sess EXCEPT ![nsess + 1] = NewWrapper(mon.dev, o)]
    /\ nsess' = nsess + 1
    /\ mon' = [mon EXCEPT !.pc = "r_install", !.new = nsess + 1]
    /\ UNCHANGED <<devices, device_wrappers, status, shutdown_event, task, mainpc, sd, sigs>>

\* a restart whose failure ends the monitor thread
AfterRestart_FailureEnds(installed) == IF installed THEN "check" ELSE "done"

\* restart_device, lines 222-228: success and failure of start_device_capture are
\* logged, an exception is caught and logged; the for loop of monitor_devices
\* goes on with its next entry
AfterRestart(installed) == "check"

\* restart_device: start_device_capture registers the replacement
MonInstall ==
    /\ UNCHANGED <<liveVars, parseVars, dispVars, connVars, healthVars, zkVars, linkVars, scopeVars, freshVars>>
    /\ Alive /\ mon.pc = "r_install"
    /\ device_wrappers' = StartInstall(device_wrappers, mon.dev, mon.new)
    /\ mon' = [mon EXCEPT !.pc = AfterRestart(sess[mon.new].zk)]
    /\ UNCHANGED <<devices, sess, nsess, status, shutdown_event, task, mainpc, sd, sigs>>

(***************************************************************************)
(* The live-capture thread of a session, as the supervisor sees it: it can *)
(* end once the wrapper's stop() has set stop_event / end_live_capture.    *)
(***************************************************************************)
WorkerExit(s) ==
    /\ UNCHANGED <<liveVars, parseVars, dispVars, connVars, healthVars, zkVars, linkVars, scopeVars, freshVars>>
    /\ Alive /\ sess[s].thr = "running" /\ sess[s].stop
    /\ sess' = [sess EXCEPT ![s].thr = "dead"]
    /\ UNCHANGED <<devices, device_wrappers, nsess, status, shutdown_event,
                   task, mainpc, mon, sd, sigs>>

SupNext ==
    \/ MainStart
    \/ \E d \in Devices : TaskCreate(d)
    \/ \E d \in Devices : TaskInstall(d)
    \/ MainPoolJoin
    \/ Signal
    \/ MainLoopExit
    \/ ShutdownNext
    \/ ShutdownJoin
    \/ ShutdownReturn
    \/ ShutdownRaise
    \/ MonCycle
    \/ MonCheck
    \/ MonWait
    \/ MonStopped
    \/ MonCreate
    \/ MonInstall
    \/ \E s \in Sessions : WorkerExit(s)

(***************************************************************************)
(* One ZktecoWrapper under successive calls of connect(True),              *)
(* start_live_capture_thread() and stop()                                  *)
(***************************************************************************)
\* the driver refuses every command on an instance that is not connected: the
\* call raises before anything is written to the socket
DriverSends_Unchecked(is_connect) == TRUE

DriverSends(is_connect) == is_connect

\* "if self.live_capture_thread and self.live_capture_thread.is_alive(): return"
WorkerRunning_Unchecked(thread) == FALSE

WorkerRunning(thread) == thread = "alive"

\* "if self.zk and self.zk.is_connect" before disconnect()
MayDisconnect(zk, is_connect) == zk /\ is_connect

\* what a caller can observe of the wrapper
LinkView(l) == [zk |-> l.zk, is_connect |-> l.is_connect, thread |-> l.thread,
                orphans |-> l.orphans, stop_event |-> l.stop_event,
                end_live_capture |-> l.end_live_capture]

\* the number of live-capture threads of the wrapper that are alive
AliveWorkers(l) == (IF l.thread = "alive" THEN 1 ELSE 0) + l.orphans

\* start_live_capture_thread(): nothing if the worker runs; otherwise clear the
\* stop event and start a new thread, which replaces the reference to the old one
start_live_capture_thread(l) ==
    IF WorkerRunning(l.thread) THEN l
    ELSE [l EXCEPT !.stop_event = FALSE,
                   !.orphans = @ + (IF l.thread = "alive" THEN 1 ELSE 0),
                   !.thread = "alive"]

\* connect(enable_live_capture=True) seen from outside: the fast path when the
\* device answers the ping, otherwise the retry loop, which makes no attempt once
\* the stop event is set and starts the worker after the attempt that succeeds
connect(l, ping, ok) ==
    IF l.zk /\ l.is_connect /\ ping THEN start_live_capture_thread(l)
    ELSE IF l.zk /\ ~l.stop_event /\ ok
         THEN start_live_capture_thread([l EXCEPT !.is_connect = TRUE])
         ELSE l

LinkFresh(zk, c) ==
    [pc |-> "idle", op |-> "none", ncalls |-> 0,
     zk |-> zk, is_connect |-> zk /\ c,
     thread |-> IF zk /\ c THEN "alive" ELSE "none", orphans |-> 0,
     stop_event |-> FALSE, end_live_capture |-> FALSE,
     sent |-> <<>>, errors |-> 0,
     pre |-> [zk |-> zk, is_connect |-> zk /\ c,
              thread |-> IF zk /\ c THEN "alive" ELSE "none", orphans |-> 0,
              stop_event |-> FALSE, end_live_capture |-> FALSE]]

\* the wrapper as __init__ leaves it: no driver object, a driver object whose
\* connect() failed, or a connected one with its worker started
LinkInit == lk \in {LinkFresh(zk, c) : zk \in BOOLEAN, c \in BOOLEAN}
LinkIdle == lk = [pc |-> "off"]

\* a call of connect(enable_live_capture=True)
LkConnect(ping, ok) ==
    /\ lk.pc = "idle" /\ lk.ncalls < MaxLinkCalls
    /\ lk' = [connect(lk, ping, ok) EXCEPT !.op = "connect", !.ncalls = @ + 1,
                                          !.pre = LinkView(lk), !.sent = <<>>,
                                          !.errors = 0]
    /\ UNCHANGED <<supVars, liveVars, parseVars, dispVars, connVars, healthVars, zkVars, scopeVars, freshVars>>

\* a call of start_live_capture_thread()
LkStart ==
    /\ lk.pc = "idle" /\ lk.ncalls < MaxLinkCalls
    /\ lk' = [start_live_capture_thread(lk) EXCEPT !.op = "start", !.ncalls = @ + 1,
                                                  !.pre = LinkView(lk), !.sent = <<>>,
                                                  !.errors = 0]
    /\ UNCHANGED <<supVars, liveVars, parseVars, dispVars, connVars, healthVars, zkVars, scopeVars, freshVars>>

\* stop(), first part: set the stop event
LkStopBegin ==
    /\ lk.pc = "idle" /\ lk.ncalls < MaxLinkCalls
    /\ lk' = [lk EXCEPT !.pc = "reg", !.op = "stop", !.ncalls = @ + 1,
                        !.pre = LinkView(lk), !.sent = <<>>, !.errors = 0,
                        !.stop_event = TRUE]
    /\ UNCHANGED <<supVars, liveVars, parseVars, dispVars, connVars, healthVars, zkVars, scopeVars, freshVars>>

\* stop(): "if self.zk:" set end_live_capture and call reg_event(0); what the
\* call raises is logged
LkStopReg(ok) ==
    /\ lk.pc = "reg"
    /\ ok => lk.zk /\ DriverSends(lk.is_connect)
    /\ lk' = IF ~lk.zk THEN [lk EXCEPT !.pc = "join"]
             ELSE [lk EXCEPT !.pc = "join", !.end_live_capture = TRUE,
                             !.sent = IF DriverSends(lk.is_connect)
                                      THEN Append(@, "reg_event") ELSE @,
                             !.errors = IF ok THEN @ ELSE @ + 1]
    /\ UNCHANGED <<supVars, liveVars, parseVars, dispVars, connVars, healthVars, zkVars, scopeVars, freshVars>>

\* stop(): join(timeout=5) if the worker is alive; it has ended by then or not
LkStopJoin(ended) ==
    /\ lk.pc = "join"
    /\ ended => lk.thread = "alive"
    /\ lk' = [lk EXCEPT !.pc = "disc",
                        !.thread = IF ended THEN "dead" ELSE @]
    /\ UNCHANGED <<supVars, liveVars, parseVars, dispVars, connVars, healthVars, zkVars, scopeVars, freshVars>>

\* stop(): disconnect() if connected, what it raises is logged; return
LkStopDisconnect(ok) ==
    /\ lk.pc = "disc"
    /\ ok => MayDisconnect(lk.zk, lk.is_connect)
    /\ lk' = IF ~MayDisconnect(lk.zk, lk.is_connect) THEN [lk EXCEPT !.pc = "idle"]
             ELSE [lk EXCEPT !.pc = "idle",
                             !.sent = IF DriverSends(lk.is_connect)
                                      THEN Append(@, "disconnect") ELSE @,
                             !.is_connect = IF ok THEN FALSE ELSE @,
                             !.errors = IF ok THEN @ ELSE @ + 1]
    /\ UNCHANGED <<supVars, liveVars, parseVars, dispVars, connVars, healthVars, zkVars, scopeVars, freshVars>>

\* a live-capture thread of the wrapper ends (the one referenced, or one whose
\* reference was replaced)
LkWorkerEnd(ref) ==
    /\ lk.pc # "off"
    /\ IF ref THEN lk.thread = "alive" ELSE lk.orphans > 0
    /\ lk' = IF ref THEN [lk EXCEPT !.thread = "dead"]
             ELSE [lk EXCEPT !.orphans = @ - 1]
    /\ UNCHANGED <<supVars, liveVars, parseVars, dispVars, connVars, healthVars, zkVars, scopeVars, freshVars>>

LinkNext ==
    \/ \E ping \in BOOLEAN, ok \in BOOLEAN : LkConnect(ping, ok)
    \/ LkStart
    \/ LkStopBegin
    \/ \E ok \in BOOLEAN : LkStopReg(ok)
    \/ \E ended \in BOOLEAN : LkStopJoin(ended)
    \/ \E ok \in BOOLEAN : LkStopDisconnect(ok)
    \/ \E ref \in BOOLEAN : LkWorkerEnd(ref)

(***************************************************************************)
(* One ZkService object used by several callers at once (overlapping       *)
(* dispatches): each runs an operation of the form                         *)
(* try: _ensure_connection_and_disable(); driver calls  finally: enable    *)
(***************************************************************************)
Callers == 1..NumCallers

\* MultiDeviceService.__init__ creates self.lock; no method acquires it, and
\* ZkService has no lock: a caller may enter an operation whatever the others do
MayEnter(pcs, c) == pcs[c] = "idle"

ScopeFresh ==
    [pc |-> [c \in Callers |-> "idle"], todo |-> [c \in Callers |-> 0],
     disabled_by |-> [c \in Callers |-> FALSE], enabled |-> TRUE, n |-> 0]

ScopeInit == sc = ScopeFresh
ScopeIdle == sc = [pc |-> "off"]

\* a caller starts an operation whose body makes k driver calls
ScInvoke(c, k) ==
    /\ MayEnter(sc.pc, c) /\ sc.n < MaxScopeOps
    /\ sc' = [sc EXCEPT !.pc[c] = "disable", !.todo[c] = k,
                        !.disabled_by[c] = FALSE, !.n = @ + 1]
    /\ UNCHANGED <<supVars, liveVars, parseVars, dispVars, connVars, healthVars, zkVars, linkVars, freshVars>>

\* _ensure_connection_and_disable: disable_device(); a failure is logged and the
\* operation goes on
ScDisable(c, ok) ==
    /\ sc.pc[c] = "disable"
    /\ sc' = [sc EXCEPT !.pc[c] = "body", !.disabled_by[c] = ok,
                        !.enabled = IF ok THEN FALSE ELSE @]
    /\ UNCHANGED <<supVars, liveVars, parseVars, dispVars, connVars, healthVars, zkVars, linkVars, freshVars>>

\* one driver call of the operation's body
ScBody(c) ==
    /\ sc.pc[c] = "body"
    /\ sc' = [sc EXCEPT !.todo[c] = @ - 1,
                        !.pc[c] = IF sc.todo[c] = 1 THEN "enable" ELSE "body"]
    /\ UNCHANGED <<supVars, liveVars, parseVars, dispVars, connVars, healthVars, zkVars, linkVars, freshVars>>

\* the finally clause: enable_device(); the operation returns
ScEnable(c, ok) ==
    /\ sc.pc[c] = "enable"
    /\ sc' = [sc EXCEPT !.pc[c] = "idle", !.enabled = IF ok THEN TRUE ELSE @]
    /\ UNCHANGED <<supVars, liveVars, parseVars, dispVars, connVars, healthVars, zkVars, linkVars, freshVars>>

ScopeNext ==
    \/ \E c \in Callers, k \in 1..MaxBodyCalls : ScInvoke(c, k)
    \/ \E c \in Callers, ok \in BOOLEAN : ScDisable(c, ok)
    \/ \E c \in Callers : ScBody(c)
    \/ \E c \in Callers, ok \in BOOLEAN : ScEnable(c, ok)

(***************************************************************************)
(* One connected session over time: the worker's read loop, which sets     *)
(* last_ping_time, and the monitor, which calls is_healthy() and restarts  *)
(***************************************************************************)
\* what the read loop's iteration met: recv returned data and the ack was sent,
\* recv returned data and the ack raised, recv timed out, recv raised
ReadEvents == {"data", "ackraise", "timeout", "error"}

\* every event refreshes the timestamp
Refreshed_Always(last, now, ev) == now

\* lines 354-356 and 320-322: last_ping_time after an event at time now; only
\* the statement after recv and the ack assigns it, test_ping() does not
Refreshed(last, now, ev) == IF ev = "data" THEN now ELSE last

\* line 280: a new wrapper starts with last_ping_time = time.time()
FreshWrapper(now, n) ==
    [now |-> now, last_ping_time |-> now, data_at |-> now, ev |-> "new",
     silence |-> 0, out |-> "none", pc |-> "sleep", restarts |-> n]

FreshInit == fr = FreshWrapper(0, 0)
FreshIdle == fr = [pc |-> "off"]

\* time passes
FrTick(dt) ==
    /\ fr.now + dt <= MaxClock
    /\ fr' = [fr EXCEPT !.now = @ + dt]
    /\ UNCHANGED <<supVars, liveVars, parseVars, dispVars, connVars, healthVars, zkVars, linkVars, scopeVars>>

\* lines 352-381: one iteration of the read loop; data_at records when data last
\* arrived
FrRecv(ev) ==
    /\ fr' = [fr EXCEPT !.last_ping_time = Refreshed(@, fr.now, ev),
                        !.data_at = IF ev \in {"data", "ackraise"} THEN fr.now ELSE @,
                        !.ev = ev]
    /\ UNCHANGED <<supVars, liveVars, parseVars, dispVars, connVars, healthVars, zkVars, linkVars, scopeVars>>

\* lines 199-201: the monitor calls is_healthy() on the session, which is
\* connected and whose worker is alive; ping is the answer to the probe, which
\* is made only when the timestamp is not stale
FrCheck(ping) ==
    /\ fr.pc = "sleep"
    /\ LET age == fr.now - fr.last_ping_time
           out == HealthCheck(TRUE, TRUE, "alive", age, ping)
           ev  == IF age > ping_interval * 3 THEN "stale" ELSE "probe_" \o ping
       IN fr' = [fr EXCEPT !.out = out, !.ev = ev,
                           !.silence = fr.now - fr.data_at,
                           !.last_ping_time = Refreshed(@, fr.now, ev),
                           !.pc = IF out = "false" THEN "restart" ELSE "sleep"]
    /\ UNCHANGED <<supVars, liveVars, parseVars, dispVars, connVars, healthVars, zkVars, linkVars, scopeVars>>

\* lines 202-203 and 211-228: restart_device stops the session and builds a new
\* wrapper
FrRestart ==
    /\ fr.pc = "restart" /\ fr.restarts < MaxRestarts
    /\ fr' = FreshWrapper(fr.now, fr.restarts + 1)
    /\ UNCHANGED <<supVars, liveVars, parseVars, dispVars, connVars, healthVars, zkVars, linkVars, scopeVars>>

FreshNext ==
    \/ \E dt \in {ping_interval, ping_interval * 3 + 1} : FrTick(dt)
    \/ \E ev \in ReadEvents : FrRecv(ev)
    \/ \E ping \in PingOutcomes : FrCheck(ping)
    \/ FrRestart

(***************************************************************************)
(* Specifications                                                          *)
(***************************************************************************)
SupInit == devices \in SUBSET Devices /\ SupFresh /\ LiveIdle /\ ParseIdle /\ DispIdle /\ ConnIdle /\ HealthIdle /\ ZkIdle /\ LinkIdle /\ ScopeIdle /\ FreshIdle
SupSpec == SupInit /\ [][SupNext]_vars

\* The monitor thread is scheduled: each step of monitor_devices and of the
\* restart_device it calls is eventually taken.
MonProgress ==
    \/ MonCycle
    \/ MonCheck
    \/ MonWait
    \/ MonStopped
    \/ MonCreate
    \/ MonInstall
SupFairSpec == SupInit /\ [][SupNext]_vars /\ WF_vars(MonProgress)

\* The main thread and the pool threads are scheduled: start() goes on as soon
\* as it can and a wrapper that has been built is registered.  How long the
\* building of a wrapper (its connect attempts) takes is up to the device and the
\* network.
SupStartFairSpec ==
    /\ SupInit /\ [][SupNext]_vars
    /\ WF_vars(MainStart) /\ WF_vars(MainPoolJoin)
    /\ WF_vars(\E d \in Devices : TaskInstall(d))

LiveSpecInit == LiveInit /\ SupIdle /\ ParseIdle /\ DispIdle /\ ConnIdle /\ HealthIdle /\ ZkIdle /\ LinkIdle /\ ScopeIdle /\ FreshIdle
LiveSpec == LiveSpecInit /\ [][LiveNext]_vars

\* The live-capture thread and a caller inside stop() are scheduled: each step
\* they can take by themselves is eventually taken.  Whether the device sends a
\* packet or the receive fails is up to the device and the network.
LcProgress ==
    \/ \E ok \in BOOLEAN : LcSetup(ok)
    \/ LcLoopCond
    \/ LcRecv("timeout", NoPacket)
    \/ LcFrame
    \/ LcRecord
    \/ LcErrSleep
    \/ \E sock_ok \in BOOLEAN, reg_ok \in BOOLEAN : LcFinally(sock_ok, reg_ok)
LiveFairSpec == LiveSpecInit /\ [][LiveNext]_vars /\ WF_vars(LcProgress) /\ WF_vars(StopEnd)

ParseSpecInit == ParseInit /\ SupIdle /\ LiveIdle /\ DispIdle /\ ConnIdle /\ HealthIdle /\ ZkIdle /\ LinkIdle /\ ScopeIdle /\ FreshIdle
ParseSpec == ParseSpecInit /\ [][ParseNext]_vars

DispSpecInit == MdInit /\ SupIdle /\ LiveIdle /\ ParseIdle /\ ConnIdle /\ HealthIdle /\ ZkIdle /\ LinkIdle /\ ScopeIdle /\ FreshIdle
DispSpec == DispSpecInit /\ [][MdNext]_vars

ConnSpecInit == ConnInit /\ SupIdle /\ LiveIdle /\ ParseIdle /\ DispIdle /\ HealthIdle /\ ZkIdle /\ LinkIdle /\ ScopeIdle /\ FreshIdle
ConnSpec == ConnSpecInit /\ [][ConnNext]_vars

HealthSpecInit == HealthInit /\ SupIdle /\ LiveIdle /\ ParseIdle /\ DispIdle /\ ConnIdle /\ ZkIdle /\ LinkIdle /\ ScopeIdle /\ FreshIdle
HealthSpec == HealthSpecInit /\ [][HealthNext]_vars

ZkSpecInit == ZkInit /\ SupIdle /\ LiveIdle /\ ParseIdle /\ DispIdle /\ ConnIdle /\ HealthIdle /\ LinkIdle /\ ScopeIdle /\ FreshIdle
ZkSpec == ZkSpecInit /\ [][ZkNext]_vars

LinkSpecInit == LinkInit /\ SupIdle /\ LiveIdle /\ ParseIdle /\ DispIdle /\ ConnIdle /\ HealthIdle /\ ZkIdle /\ ScopeIdle /\ FreshIdle
LinkSpec == LinkSpecInit /\ [][LinkNext]_vars

ScopeSpecInit == ScopeInit /\ SupIdle /\ LiveIdle /\ ParseIdle /\ DispIdle /\ ConnIdle /\ HealthIdle /\ ZkIdle /\ LinkIdle /\ FreshIdle
ScopeSpec == ScopeSpecInit /\ [][ScopeNext]_vars

FreshSpecInit == FreshInit /\ SupIdle /\ LiveIdle /\ ParseIdle /\ DispIdle /\ ConnIdle /\ HealthIdle /\ ZkIdle /\ LinkIdle /\ ScopeIdle
FreshSpec == FreshSpecInit /\ [][FreshNext]_vars

(***************************************************************************)
(* Claims about the supervisor                                             *)
(***************************************************************************)
\* a session is live if its connection is open or its worker thread is running
LiveSession(s) == sess[s].dev # 0 /\ (sess[s].conn \/ sess[s].thr = "running")
LiveSessionsOf(d) == {s \in Sessions : sess[s].dev = d /\ LiveSession(s)}

\* C1: in every reachable state of the supervisor, at most one live session
\* (connection open or live-capture thread running) exists per device id.
C1_AtMostOneLiveSessionPerDevice ==
    \A d \in Devices : Cardinality(LiveSessionsOf(d)) <= 1

\* C2: whenever restart_device installs a replacement session in the registry,
\* the session it stopped for that device id is fully stopped at that moment:
\* its worker thread has terminated and its connection is closed.
C2_PreviousStoppedWhenReplaced ==
    [][(/\ mon.pc = "r_install" /\ mon'.pc = "check"
        /\ mon.old # 0
        /\ DictGet(device_wrappers', mon.dev) = mon.new)
       => (sess[mon.old].thr # "running" /\ ~sess[mon.old].conn)]_vars

\* C3: once a shutdown() call has returned, the registry is empty and no session
\* has a running worker or an open connection, for as long as the process lives.
C3_QuiescentAfterShutdown ==
    (sd.returned > 0 /\ Alive)
        => (DictLen(device_wrappers) = 0 /\ \A s \in Sessions : ~LiveSession(s))

(***************************************************************************)
(* Claims about the live-capture read loop                                 *)
(***************************************************************************)
\* C4: a stop requested while the read-loop worker is blocked in its socket
\* receive is observed even if the device sends no further packet: the receive
\* is bounded by a read timeout, so the worker eventually leaves it (to test the
\* stop flag and exit).
C4_StopObservedWhileReceiving ==
    (lc.stop /\ lc.pc = "recv") ~> (lc.pc # "recv")

\* the fixed size of the record at the front of a payload of the given length
RecordSize(n) == IF n \in {10, 12, 14, 32, 36, 37} THEN n ELSE 52

\* C8: for a live-event payload of at least 10 bytes, an iteration of the record
\* loop (seen here when it forwards an event) shortens the remaining payload by
\* the record's fixed size, and the record loop ends: the read loop gets back to
\* its loop test and its next receive.
C8_RecordLoopConsumesAndEnds ==
    /\ [][(lc.pc = "records" /\ posts' # posts)
            => Len(lc'.data) = Len(lc.data) - RecordSize(Len(lc.data))]_vars
    /\ ((lc.pc = "records") ~> (lc.pc = "loopcond"))

\* C10: a packet whose header field 0 is not 500, or whose payload is empty, is
\* dropped whole: no POST attempt ever stems from it.
C10_DroppedPacketsForwardNothing ==
    \A i \in DOMAIN posts : posts[i].cmd = 500 /\ posts[i].plen > 0

\* a packet with another command code and a full 10-byte record was received and
\* the loop is back at its test, with forwarding possible (backend set, no stop)
C10_Witness ==
    /\ lc.pc = "loopcond" /\ npk >= 1
    /\ lc.pkt.cmd # 500 /\ Len(lc.pkt.payload) = 10 /\ ~lc.pkt.short
    /\ lc.backend /\ ~lc.stop
    /\ posts = << >>

\* payload lengths that match a branch of the record layout table
LayoutLen(n) == n \in {10, 12, 14, 32, 36, 37} \/ n >= 52

\* C11: a live-event payload whose remaining length matches no record layout
\* (20 bytes, say) is skipped as a no-op: no event is forwarded for it and the
\* read loop goes on to its loop test and its next receive.
C11_UnknownLayoutSkipped ==
    /\ [](\A i \in DOMAIN posts : LayoutLen(posts[i].plen))
    /\ ((lc.pc = "records" /\ Len(lc.data) >= 10 /\ ~LayoutLen(Len(lc.data)))
            ~> (lc.pc = "loopcond"))

\* C12: forwarding an event makes at most one POST attempt for it and never
\* retries it (every packet here holds at most one record, so at most one POST
\* stems from a packet); a transport failure, an HTTP error status or a missing
\* webhook configuration is absorbed: the worker neither takes the error path
\* nor ends, and without configuration nothing is posted.
C12_ForwardOncePerEvent ==
    /\ [](\A i, j \in DOMAIN posts : posts[i].seq = posts[j].seq => i = j)
    /\ [][(lc.pc = "records" /\ RecordLoopCond(lc.data))
            => /\ Len(posts') <= Len(posts) + 1
               /\ lc'.pc = "records"
               /\ (~lc.backend => posts' = posts)]_vars

(***************************************************************************)
(* Claims about parse_user_data                                            *)
(***************************************************************************)
SupportedLen(n) == n \in {10, 12, 14, 32, 36, 37} \/ n >= 52
\* width of the identifier field for a payload length, from the layout table
IdWidth(n) == IF n \in {10, 14} THEN 2 ELSE IF n = 12 THEN 4 ELSE 24

\* value of a decimal digit string, as two halves: hi * 65536 + lo
RECURSIVE DigitsValue(_)
DigitsValue(s) ==
    IF s = << >> THEN [lo |-> 0, hi |-> 0]
    ELSE LET acc == DigitsValue(SubSeq(s, 1, Len(s) - 1))
             t == acc.lo * 10 + (s[Len(s)] - 48) IN
         [lo |-> t % 65536, hi |-> acc.hi * 10 + t \div 65536]
IsDecimal(s) == /\ Len(s) \in 1..10
                /\ \A i \in DOMAIN s : s[i] \in 48..57
                /\ (Len(s) > 1 => s[1] # 48)

\* the unsigned little-endian value of the first w bytes (w = 2 or 4)
FieldValue(data, w) ==
    [lo |-> data[1] + 256 * data[2],
     hi |-> IF w = 4 THEN data[3] + 256 * data[4] ELSE 0]
\* number of bytes of the 24-byte field before its first null byte
TextLen(data) ==
    IF \E k \in 1..24 : data[k] = 0
    THEN (CHOOSE k \in 1..24 : data[k] = 0 /\ \A j \in 1..(k - 1) : data[j] # 0) - 1
    ELSE 24

\* C9: for a payload length of 10, 12, 14, 32, 36, 37 or at least 52 the parser
\* yields the documented identifier: the decimal string of the first 2 bytes
\* (lengths 10, 14) or 4 bytes (length 12) read as an unsigned little-endian
\* integer, or the first 24 bytes cut at the first null byte, decoded with
\* invalid bytes dropped.
C9_ParserYieldsDocumentedId ==
    (p_done /\ SupportedLen(Len(p_data))) =>
        IF IdWidth(Len(p_data)) \in {2, 4}
        THEN /\ IsDecimal(p_out)
             /\ DigitsValue(p_out) = FieldValue(p_data, IdWidth(Len(p_data)))
        ELSE /\ p_out = Utf8Ignore(SubSeq(p_data, 1, TextLen(p_data)))
             /\ ((\A k \in 1..TextLen(p_data) : p_data[k] < 128)
                    => p_out = SubSeq(p_data, 1, TextLen(p_data)))

\* the 2-byte little-endian encoding of 17 in a 10-byte record came out as "17"
C9_Witness ==
    /\ p_done /\ Len(p_data) = 10
    /\ p_data[1] = 17 /\ p_data[2] = 0
    /\ p_out = <<49, 55>>

(***************************************************************************)
(* Claims about ZktecoWrapper.connect                                      *)
(***************************************************************************)
AllAttemptsFailed == cn.failed = cn.attempts
RECURSIVE SumDelays(_)
SumDelays(ws) == IF ws = << >> THEN 0 ELSE Head(ws).delay + SumDelays(Tail(ws))
CappedDelay(base, k) == IF base * k < 60 THEN base * k ELSE 60

\* C13: while every driver connect attempt fails, connect() makes at most
\* maxRetries attempts, the wait after the k-th failed attempt is
\* min(baseDelay * k, 60) seconds, and there is no wait after the last attempt;
\* with maxRetries = 3 and baseDelay = 1 that is at most 3 attempts and at most
\* 1 + 2 = 3 seconds of waiting.
C13_BoundedLinearBackoff ==
    AllAttemptsFailed =>
        /\ cn.attempts <= cn.max_retries
        /\ Len(cn.waits) <= cn.attempts
        /\ \A k \in DOMAIN cn.waits : cn.waits[k].delay = CappedDelay(cn.base_delay, k)
        /\ (cn.attempts > 0 /\ cn.attempts = cn.max_retries
                => cn.pc = "returned" /\ Len(cn.waits) = cn.attempts - 1)
        /\ ((cn.max_retries = 3 /\ cn.base_delay = 1)
                => cn.attempts <= 3 /\ SumDelays(cn.waits) <= 3)

\* three failed attempts with maxRetries = 3 and baseDelay = 1: waits of 1 s and
\* 2 s, then the call returned
C13_Witness ==
    /\ cn.pc = "returned" /\ ~cn.stop
    /\ cn.max_retries = 3 /\ cn.base_delay = 1
    /\ cn.attempts = 3 /\ cn.failed = 3
    /\ cn.waits = <<[delay |-> 1, cut |-> FALSE], [delay |-> 2, cut |-> FALSE]>>

\* C14: when every driver connect attempt has failed, connect(enableLiveCapture)
\* returns false, the link is left disconnected and no live-capture worker has
\* been started.
C14_ExhaustedConnectLeavesDisconnected ==
    AllAttemptsFailed =>
        /\ ~cn.is_connect /\ ~cn.thread
        /\ (cn.pc = "returned" => cn.result = FALSE)

\* connect(enable_live_capture=True) returned after using up its two attempts
C14_Witness ==
    /\ cn.pc = "returned" /\ cn.elc /\ ~cn.stop
    /\ cn.max_retries = 2 /\ cn.attempts = 2 /\ cn.failed = 2
    /\ cn.result = FALSE

\* C15: if the stop signal is set while connect() waits between two retries, the
\* wait ends at once (it is cut short), no further driver connect attempt is
\* made and connect() returns false.
C15_StopAbortsRetryWait ==
    cn.stop_in_wait =>
        /\ cn.attempts = cn.attempts_at_stop
        /\ cn.pc \in {"wait", "loopcond", "returned"}
        /\ (cn.pc # "wait" => cn.waits[Len(cn.waits)].cut)
        /\ (cn.pc = "returned" => cn.result = FALSE)

\* stop was set during the first wait of a connect() that had retries left; the
\* call returned false after its one attempt
C15_Witness ==
    /\ cn.stop_in_wait /\ cn.pc = "returned" /\ cn.result = FALSE
    /\ cn.attempts = 1 /\ cn.max_retries >= 3
    /\ cn.waits[1].cut

(***************************************************************************)
(* Claims about ZktecoWrapper.is_healthy                                   *)
(***************************************************************************)
\* C16: isHealthy() returns true only if the link has a connection handle, the
\* driver's connectivity flag is true, the live-capture thread is alive, the
\* last packet or ping is at most 3 * pingInterval old and the ping probe
\* succeeds; it returns false whenever the thread is not alive, however recent
\* the last ping, and an exception of the probe gives false, never propagates.
C16_HealthyOnlyIfAllHold ==
    hc.done =>
        /\ hc.out \in {"true", "false"}
        /\ (hc.out = "true" => /\ hc.zk /\ hc.is_connect /\ hc.thread = "alive"
                               /\ hc.age <= 3 * 15 /\ hc.ping = "ok")
        /\ (hc.thread # "alive" => hc.out = "false")
        /\ (hc.ping = "raise" => hc.out = "false")

\* a connected link with an ended thread, a fresh last ping and a device that
\* answers the probe was found unhealthy
C16_Witness ==
    /\ hc.done /\ hc.out = "false"
    /\ hc.zk /\ hc.is_connect /\ hc.thread = "dead" /\ hc.age = 0 /\ hc.ping = "ok"

(***************************************************************************)
(* Claims about the ZkService operations                                   *)
(***************************************************************************)
Called(c) == \E i \in DOMAIN zs.calls : zs.calls[i] = c
InRange(n) == n >= 300 /\ n <= 2000

\* C17: for every operation, on every exit path (normal return, a driver
\* exception, a validation error, a failed connect), the driver's enable-device
\* call has been issued when the invocation returns or raises.
C17_EnableOnEveryExit ==
    zs.pc = "done" => Called("enable_device")

\* C18: for every operation, the device has been put in the disabled state
\* before the first driver call of the operation's body is issued.
C18_DisabledBeforeFirstCall ==
    zs.at_first # "enabled"

\* C19: setUserTemplate accepts a template exactly when its byte length is in
\* [300, 2000]: the size check passes for such a length and only for it, and a
\* template outside the range (299, 2001) is rejected with an error and never
\* written.
C19_TemplateSizeBoundary ==
    zs.op = "set_user_template" =>
        /\ (zs.valid = "ok" => InRange(zs.len))
        /\ (zs.valid = "rejected" => ~InRange(zs.len))
        /\ (zs.pc = "body" => zs.valid = "ok")
        /\ (~InRange(zs.len) => /\ ~Called("HR_save_usertemplates")
                                /\ (zs.pc = "done" => zs.result = "raised"))
        /\ (zs.pc = "done" /\ zs.result = "returned" => InRange(zs.len))

\* a template of 2000 bytes passed the check, was written and the call returned
C19_Witness ==
    /\ zs.op = "set_user_template" /\ zs.len = 2000 /\ zs.valid = "ok"
    /\ zs.pc = "done" /\ zs.result = "returned"
    /\ Called("HR_save_usertemplates")

\* position of the first call c in the driver call log, 0 if there is none
FirstCall(c) == IF Called(c) THEN CHOOSE i \in DOMAIN zs.calls :
                                     zs.calls[i] = c /\ \A j \in 1..(i - 1) : zs.calls[j] # c
                ELSE 0

\* C21: in setUserTemplate the template write is issued only for a user that
\* exists on the device: the user was in the list, or it was absent, a
\* placeholder was created before the write and the user was there afterwards;
\* if it is still absent after the creation the call fails without the write.
C21_TemplateWrittenOnlyForExistingUser ==
    zs.op = "set_user_template" =>
        /\ (Called("HR_save_usertemplates") =>
               /\ zs.valid = "ok"
               /\ (zs.known \/ zs.appears)
               /\ (~zs.known => /\ Called("set_user")
                                /\ FirstCall("set_user") < FirstCall("HR_save_usertemplates")))
        /\ (zs.known => ~Called("set_user"))
        /\ (~zs.known /\ ~zs.appears /\ zs.pc = "done" => zs.result = "raised")

\* the user was absent: it was created, found in the refreshed list, and the
\* template was written
C21_Witness ==
    /\ zs.op = "set_user_template" /\ ~zs.known /\ zs.appears
    /\ zs.pc = "done" /\ zs.result = "returned"
    /\ Called("set_user") /\ Called("HR_save_usertemplates")

\* C20: a setUserTemplate call with a template outside [300, 2000] bytes is
\* rejected without any protocol call to the device: no connect, disable, user
\* lookup, user creation or template write is issued.
C20_InvalidTemplateNoProtocolCall ==
    (zs.op = "set_user_template" /\ ~InRange(zs.len)) => zs.calls = << >>

(***************************************************************************)
(* Claims about the fan-out dispatcher                                     *)
(***************************************************************************)
RaisedOn(d) == \E i \in DOMAIN md_fut : md_fut[i].dev = d /\ md_fut[i].st = "raised"
ResultKeys == {d \in MdIds : md_results[d].present}
RequestedIds == {md_req.ids[i] : i \in DOMAIN md_req.ids}
Targeted == IF md_req.kind = "all" THEN md_devices ELSE RequestedIds \cap md_devices
PoolSize == IF md_req.kind = "all" THEN Cardinality(md_devices) ELSE Len(md_req.ids)

\* C5: dispatchAll isolates each device's outcome: no device's exception leaves
\* the dispatch (only an empty fleet makes it fail), an entry is marked failed
\* exactly when the operation raised on that same device, and the returned map
\* holds exactly one entry per registered device.
C5_DispatchAllIsolatesOutcomes ==
    md_req.kind = "all" =>
        /\ (md_pc = "raised" => md_devices = {})
        /\ \A d \in ResultKeys : d \in md_devices /\ (md_results[d].success <=> ~RaisedOn(d))
        /\ (md_pc = "returned" => ResultKeys = md_devices)

\* five devices, the operation raised on device 3 only: four successes, one
\* failure under key 3
C5_Witness ==
    /\ md_req.kind = "all" /\ md_pc = "returned"
    /\ md_devices = 1..5
    /\ {d \in MdIds : md_results[d].present /\ md_results[d].success} = {1, 2, 4, 5}
    /\ {d \in MdIds : md_results[d].present /\ ~md_results[d].success} = {3}

\* C6 as stated: dispatchSelected returns a result map (it does not fail) whose
\* key set is exactly the requested ids that are registered.
C6_SelectedReturnsRegisteredKeys ==
    md_req.kind = "selected" =>
        /\ md_pc # "raised"
        /\ (md_pc = "returned" => ResultKeys = RequestedIds \cap md_devices)

\* C6, amended: for a non-empty id list, dispatchSelected does not fail and
\* returns a map whose key set is exactly the requested ids that are registered;
\* unknown ids are left out.
C6_SelectedKeysForNonEmptyList ==
    (md_req.kind = "selected" /\ md_req.ids # << >>) =>
        /\ md_pc # "raised"
        /\ ResultKeys \subseteq RequestedIds \cap md_devices
        /\ (md_pc = "returned" => ResultKeys = RequestedIds \cap md_devices)

\* ids [1, 2, 999] with devices 1 and 2 registered returned keys {1, 2}
C6_Witness ==
    /\ md_req.kind = "selected" /\ md_pc = "returned"
    /\ md_req.ids = <<1, 2, 999>> /\ md_devices = {1, 2}
    /\ ResultKeys = {1, 2}

FailedEntry(d) == /\ md_results[d].present /\ ~md_results[d].success
                  /\ md_results[d].error # ""

\* C7 as stated: dispatching an operation the device service does not support
\* returns normally, with a failed entry and an error string for every targeted
\* device.
C7_UnsupportedOpFailsPerDevice ==
    (md_req.kind # "none" /\ GetAttr(md_req.op) # "method") =>
        /\ md_pc # "raised"
        /\ \A d \in ResultKeys : FailedEntry(d)
        /\ (md_pc = "returned" => \A d \in Targeted : FailedEntry(d))

\* C7, amended: the same, for a dispatch that targets a non-empty pool (a
\* registered device for dispatchAll, a non-empty id list for dispatchSelected).
C7_UnsupportedOpFailsPerDeviceNonEmptyPool ==
    (md_req.kind # "none" /\ GetAttr(md_req.op) # "method" /\ PoolSize > 0) =>
        /\ md_pc # "raised"
        /\ \A d \in ResultKeys : FailedEntry(d)
        /\ (md_pc = "returned" => \A d \in Targeted : FailedEntry(d))

\* an unknown operation name dispatched to two registered devices returned two
\* failed entries
C7_Witness ==
    /\ md_req.kind = "all" /\ md_req.op = "no_such_operation"
    /\ md_devices = {1, 2} /\ md_pc = "returned"
    /\ \A d \in {1, 2} : FailedEntry(d) /\ md_results[d].error = "Operation not supported"

(***************************************************************************)
(* Claims about one wrapper under successive calls                         *)
(***************************************************************************)
\* a stop() call has returned
StopReturned == lk.pc = "idle" /\ lk.op = "stop"

\* the link is stopped or was never started: no open connection, no worker alive
LinkStopped(v) == ~v.is_connect /\ v.thread # "alive" /\ v.orphans = 0

\* an earlier stop() has left its marks: stop event and end-of-capture flag set
StopRequested(v) == v.stop_event /\ (v.zk => v.end_live_capture)

C28_AtMostOneWorker ==
    /\ [](AliveWorkers(lk) <= 1)
    /\ [][(LkStart /\ lk.thread = "alive") => LinkView(lk') = LinkView(lk)]_vars
    /\ [][((\E ping \in BOOLEAN, ok \in BOOLEAN : LkConnect(ping, ok)) /\ lk.thread = "alive")
             => /\ lk'.thread = "alive"
                /\ lk'.orphans = lk.orphans
                /\ lk'.stop_event = lk.stop_event]_vars

C28_Witness ==
    /\ lk.op \in {"start", "connect"} /\ lk.pc = "idle"
    /\ lk.pre.thread = "alive" /\ lk.thread = "alive" /\ lk.ncalls >= 2

(***************************************************************************)
(* Claims about the monitor, start() and shutdown()                        *)
(***************************************************************************)
\* the monitor has found session s, registered for device d, unhealthy and has
\* entered restart_device
FoundUnhealthy(d, s) == mon.pc = "r_join" /\ mon.dev = d /\ mon.old = s

\* the registry holds for d a session other than s, and s has been stopped
Replaced(d, s) ==
    /\ DictHas(device_wrappers, d)
    /\ DictGet(device_wrappers, d) # s
    /\ sess[s].stop

\* C23: whenever the monitor finds a registered session unhealthy, then, unless
\* the supervisor is shut down, the session is eventually stopped and the
\* registry holds a fresh session for the same device id.
C23_UnhealthyEventuallyReplaced ==
    \A d \in Devices : \A s \in Sessions :
        FoundUnhealthy(d, s) ~> (shutdown_event \/ nsess = MaxSessions \/ Replaced(d, s))

\* start() has returned False
StartFailed == status = "error"

\* start() has returned True: status RUNNING was set and the monitor was started
StartSucceeded == mon.pc # "off"

\* every start_device_capture task of start() has finished
InitTasksDone == devices # {} /\ \A d \in devices : task[d].st = "done"

\* C24: start() returns False exactly when no device is configured, and then no
\* session and no monitor exist; with devices configured and no shutdown
\* requested, each device whose wrapper got its driver object is registered
\* with that wrapper once the initialization tasks are done, whatever happened to
\* the other devices, a device whose initialization failed is not registered,
\* and start() returns True (with a registry that is non-empty or not).
C24_StartFailsOnlyWithoutDevices ==
    /\ StartFailed <=> (devices = {} /\ mainpc # "init")
    /\ StartFailed => nsess = 0 /\ ~StartSucceeded /\ device_wrappers = << >>
    /\ (InitTasksDone /\ ~shutdown_event /\ mainpc = "wait") =>
          \A d \in devices :
             IF sess[task[d].w].zk
             THEN DictGet(device_wrappers, d) = task[d].w
             ELSE ~DictHas(device_wrappers, d)
    /\ (devices # {} /\ ~shutdown_event /\ mainpc \notin {"init", "wait"}) =>
          StartSucceeded /\ status = "running"

C24_Witness ==
    /\ StartSucceeded /\ ~shutdown_event /\ sigs = 0
    /\ \E d \in devices : ~sess[task[d].w].zk /\ ~DictHas(device_wrappers, d)
    /\ \E d \in devices : sess[task[d].w].zk /\ DictGet(device_wrappers, d) = task[d].w

LaterShutdownEnds == sd.pc = "iter" /\ sd'.pc = "idle" /\ sd.returned >= 1

\* a shutdown() call that began after an earlier call had returned calls stop()
LaterShutdownStops == sd.pc = "iter" /\ sd'.pc = "join" /\ sd.returned >= 1

\* C26: a shutdown() call made after an earlier call has returned returns too
\* (it is not left by an exception), leaves the shutdown flag set, the registry
\* empty and the status STOPPED, and calls stop() on no session that has been
\* stopped before.
C26_ShutdownIdempotent ==
    /\ [][LaterShutdownEnds =>
            /\ sd'.returned = sd.returned + 1
            /\ shutdown_event'
            /\ device_wrappers' = << >>
            /\ status' = "stopped"]_vars
    /\ [][LaterShutdownStops => ~sess[sd'.cur].stop]_vars

\* shutdown() is inside its loop over self.device_wrappers.items()
ShutdownIterating == sd.pc \in {"iter", "join"}

\* C27: the registry is accessed under mutual exclusion: while shutdown() is
\* iterating it, no other thread (an initialization task of start(), the
\* monitor's restart_device) inserts into it or removes from it; it changes
\* only by the clear() with which shutdown() ends its own access.
C27_RegistryMutualExclusion ==
    [][(ShutdownIterating /\ device_wrappers' # device_wrappers)
          => (sd'.pc = "idle" /\ device_wrappers' = << >>)]_vars

(***************************************************************************)
(* Claims about the end of the live-capture worker                         *)
(***************************************************************************)
\* the worker is inside the read loop (lines 352-385)
InReadLoop(w) == w.pc \in {"loopcond", "recv", "frame", "records", "errsleep"}

\* C29: the worker leaves the read loop only with the stop event or the
\* end-of-capture flag set; an exception raised while receiving, framing,
\* parsing or forwarding leaves it inside the loop.
C29_LoopEndsOnlyOnStop ==
    /\ [][(InReadLoop(lc) /\ ~InReadLoop(lc')) => (lc.stop \/ lc.endcap)]_vars
    /\ [][lc.pc = "errsleep" => InReadLoop(lc')]_vars

C29_Witness == lc.pc = "errsleep" /\ ~lc.stop /\ ~lc.endcap /\ npk >= 1

\* C30: whenever the worker has ended, its cleanup has called both steps, the
\* restoring of the socket to blocking mode and then the de-registration of
\* events, and what a step raised was logged and ended the thread normally.
C30_CleanupAttemptsBothSteps ==
    lc.pc = "ended" => lc.cleanup = <<"settimeout", "reg_event">>

(***************************************************************************)
(* Claims about the monitor loop                                           *)
(***************************************************************************)
\* the monitor is inside restart_device
InRestart(m) == m.pc \in {"r_join", "r_create", "r_install"}

\* C31: the monitor thread ends only with the shutdown flag set, and main ends
\* only after a shutdown was requested or because no device is configured; a
\* restart, failed or not, and the KeyError of a registry entry that vanished
\* lead back into the for loop of the cycle, after which the monitor waits and
\* starts its next cycle.
C31_MonitorEndsOnlyOnShutdown ==
    /\ [][(mon.pc # "done" /\ mon'.pc = "done") => shutdown_event]_vars
    /\ [](mon.pc = "done" => shutdown_event)
    /\ [](mainpc = "exited" => (shutdown_event \/ devices = {}))
    /\ [][InRestart(mon) => (InRestart(mon') \/ mon'.pc = "check")]_vars
    /\ [][(mon.pc = "check" /\ mon'.pc # "check") => (InRestart(mon') \/ mon'.pc = "loop")]_vars

C31_Witness ==
    /\ mon.pc = "loop" /\ ~shutdown_event
    /\ mon.new # 0 /\ ~sess[mon.new].zk /\ ~DictHas(device_wrappers, mon.dev)

\* the monitor takes the next entry of its snapshot: it calls is_healthy() and,
\* on an unhealthy verdict, restart_device
MonitorExamines == mon.pc = "check" /\ mon'.q # mon.q

\* C32: with the shutdown flag set, the monitor makes no further health check
\* and begins no further restart.
C32_NoMonitoringAfterShutdown ==
    [][shutdown_event => ~MonitorExamines]_vars

(***************************************************************************)
(* Claims about start_device_capture and start()                           *)
(***************************************************************************)
\* session s is put in the registry for device d by this step
Registers(d, s) ==
    /\ DictHas(device_wrappers', d)
    /\ DictGet(device_wrappers', d) = s
    /\ DictGet(device_wrappers, d) # s

\* C33: a session is put in the registry only if its connection to the device
\* was established; the wrapper of a device whose connect() returned False is
\* not registered.
C33_RegisteredOnlyIfConnected ==
    [][\A d \in Devices : \A s \in Sessions : Registers(d, s) => sess[s].conn]_vars

\* C34: start() does not wait for an initialization that takes longer than its
\* bound: having submitted its tasks, start() always comes to its end (status
\* RUNNING, monitor started), whether or not every initialization finishes.
C34_StartDoesNotWaitForInit ==
    (mainpc = "wait" /\ sigs = 0) ~> (mainpc # "wait" \/ sigs > 0)

(***************************************************************************)
(* Claims about concurrent callers of one ZkService                        *)
(***************************************************************************)
\* caller c is inside its disable/enable scope
InScope(c) == sc.pc[c] \in {"body", "enable"}

\* this step is a driver call of caller c's operation body
BodyCall(c) == sc.pc[c] = "body" /\ sc'.todo[c] = sc.todo[c] - 1

\* C35: at most one caller at a time is inside the disable/enable scope of the
\* device, and a driver call of an operation that disabled the device never
\* runs with the device enabled again by another operation's enable call.
C35_OneCallerInScope ==
    /\ [](\A c, o \in Callers : (InScope(c) /\ InScope(o)) => c = o)
    /\ [][\A c \in Callers : (BodyCall(c) /\ sc.disabled_by[c]) => ~sc.enabled]_vars

(***************************************************************************)
(* Claims about the freshness timestamp                                    *)
(***************************************************************************)
\* the last event was a health check by the monitor
Checked == fr.ev \in {"stale", "probe_ok", "probe_fail", "probe_raise"}

\* C36: last_ping_time changes only when recv returned data (or a new wrapper
\* is built); a probe or a read timeout leaves it alone, so a health check of
\* a connected session with a live worker that received nothing for more than
\* 3 * ping_interval answers false, and the monitor then restarts the session
C36_OnlyDataRefreshes ==
    /\ [][fr'.last_ping_time # fr.last_ping_time => fr'.ev \in {"data", "new"}]_vars
    /\ []((Checked /\ fr.silence > ping_interval * 3) => (fr.out = "false" /\ fr.pc = "restart"))
    /\ [][(fr.pc = "restart" /\ fr'.pc # "restart")
            => (fr'.ev = "new" /\ fr'.restarts = fr.restarts + 1)]_vars

C36_Witness ==
    /\ fr.ev = "stale" /\ fr.pc = "restart"
    /\ fr.silence > ping_interval * 3
    /\ fr.restarts > 0

(***************************************************************************)
(* Claims about the supervisor's status                                    *)
(***************************************************************************)
\* C37: once shutdown() has set status to STOPPED, status does not become
\* RUNNING again, also when the signal handler ran shutdown() while start() was
\* still initializing the devices: no step takes STOPPED to RUNNING
C37_StoppedIsFinal == [][status = "stopped" => status' # "running"]_vars

(***************************************************************************)
(* Claims about a dispatch with an empty pool                              *)
(***************************************************************************)
\* a selected dispatch whose non-empty id list names no registered device
OnlyUnknownIds ==
    /\ md_req.kind = "selected" /\ md_req.ids # << >>
    /\ RequestedIds \cap md_devices = {}

\* C38: a dispatch whose pool would have size zero (dispatchAll with no
\* registered device, dispatchSelected with an empty id list) raises and
\* returns no map; dispatchSelected with a non-empty list of unknown ids only
\* does not raise, submits nothing and returns an empty map
C38_EmptyPoolRaises ==
    /\ (md_req.kind # "none" /\ PoolSize = 0) => (md_pc = "raised" /\ ResultKeys = {})
    /\ OnlyUnknownIds =>
          /\ md_pc \in {"running", "returned"}
          /\ md_fut = << >> /\ ResultKeys = {}

\* dispatchSelected([]) with two devices registered has raised
C38_Witness ==
    /\ md_req.kind = "selected" /\ md_req.ids = << >>
    /\ md_devices = {1, 2} /\ md_pc = "raised"

(***************************************************************************)
(* Claims about devices without a registry entry                           *)
(***************************************************************************)
\* the monitor is inside restart_device for device d
Restarting(d) == mon.pc \in {"r_join", "r_create", "r_install"} /\ mon.dev = d

\* device d is configured, its initial start is over, it has no registry entry
\* and the monitor's current pass does not hold it
Orphan(d) ==
    /\ d \in devices /\ task[d].st = "done"
    /\ ~DictHas(device_wrappers, d)
    /\ \A i \in DOMAIN mon.q : mon.q[i][1] # d
    /\ ~Restarting(d)

\* C39: the monitor's pass is over the sessions present in the registry, so a
\* configured device without an entry (its initial start failed, or a restart
\* removed the old session and the new one failed) stays without one: the
\* monitor never examines it, never restarts it and never registers it
C39_OrphanNeverRestarted ==
    /\ [][(mon.pc = "loop" /\ mon'.pc = "check") =>
            \A i \in DOMAIN mon'.q : DictHas(device_wrappers, mon'.q[i][1])]_vars
    /\ [][\A d \in Devices : Orphan(d) => Orphan(d)']_vars

\* a restart removed the old session, the replacement failed, and the monitor
\* has finished that pass: the device has no entry
C39_Witness ==
    \E d \in Devices :
        /\ Orphan(d) /\ mon.dev = d /\ mon.pc = "loop"
        /\ mon.old # 0 /\ mon.new # 0 /\ ~sess[mon.new].zk

====
